---- MODULE Spec2Model ----
(***************************************************************************)
(* Agent-log normalization pipeline of packages/log-parser:                *)
(*   parseVictoriaLog  (parser.ts)      line-oriented section parser        *)
(*   enrichParsedRun   (validation.ts)  tool-call id inference              *)
(*   validateParsedRun (validation.ts)  consistency warnings                *)
(*   buildCausalityChain (formatter.ts) causality edges                     *)
(*   processLogRun     (api.ts)         parse -> enrich -> validate -> format*)
(*   parseJsonLog, parseJsonLogRaw (formatter.ts)  JSON ingestion           *)
(*   isJsonLog, normalizeLogFormat (utils.ts)      format detection         *)
(* and the file upload of packages/relay-log-uploader:                     *)
(*   uploadBtn click handler (popup.js)  sends OPEN_AND_UPLOAD              *)
(*   onMessage OPEN_AND_UPLOAD, openProviderTab, waitForTabComplete,        *)
(*   retrySendFiles, sendFilesToTab (background.js)                         *)
(*                                                                         *)
(* Representation.  An optional string field (model, toolName, toolCallId) *)
(* that is absent is the empty string: every test the code makes on these  *)
(* fields is a truthiness test, which treats undefined and "" alike.  A    *)
(* time value is the tuple of its characters, so that the HH:MM:SS regex   *)
(* is computed and not assumed; the absent time is the empty tuple.  An    *)
(* event text is the tuple of its tokens: one token per non-blank line,    *)
(* NL for the "\n" that append() puts between lines and SP for the content *)
(* of a whitespace-only line.                                              *)
(***************************************************************************)
EXTENDS Integers, Sequences, FiniteSets, TLC

VARIABLES
    pc,       \* position: "parse", "parsed", "enriched", "validated", "formatted",
              \* "error" (an exception left the parser), "call", "entry", "two",
              \* "text", "upload"
    nlines,   \* number of input lines consumed by the parse loop
    state,    \* the parser's state object {current, seq, pending}
    events,   \* the parser's events array
    run,      \* the Run value currently held (events, warnings)
    input,    \* the Run value the last stage was applied to
    stages,   \* the stages applied so far, oldest first
    chain,    \* the edge list returned by buildCausalityChain
    sections, \* the "ID:" lines read so far inside tool_call and tool_result sections
    gap,      \* what the input text holds since its last header line
    warnings, \* the parser's warnings array
    entry,    \* a call of a JSON or format-detection entry point: its argument and outcome
    calls,    \* two parseVictoriaLog calls made by independent callers
    tab,      \* the status the browser holds for the provider tab
    listener, \* whether the onUpdated listener of waitForTabComplete is registered
    worker,   \* the OPEN_AND_UPLOAD handler of the background worker: where it is
              \* and its local variables
    acked,    \* whether a content script has answered UPLOAD_FILES with ok: true
    responses,\* the arguments of the sendResponse calls of the handler, oldest first
    popup     \* the click handler of the popup: where it is and the status it shows

vars ==
    <<pc, nlines, state, events, run, input, stages, chain, sections, gap, warnings,
      entry, calls, tab, listener, worker, acked, responses, popup>>

(***************************************************************************)
(* Bounds                                                                  *)
(***************************************************************************)
MaxLines == 6
MaxEvents == 3
MaxCalls == 2
MaxLinesEach == 2
MaxMessages == 2
MaxTextLines == 4
MaxAttempts == 2
MaxFrames == 2

(***************************************************************************)
(* Values                                                                  *)
(***************************************************************************)
Unset == ""
NoTime == <<>>
NL == "\n"
SP == " "
Whitespace == {NL, SP}

Truthy(s) == s # Unset
HasTime(t) == t # NoTime

NoData == [present |-> FALSE, key |-> "", list |-> <<>>]

EmptyPending == [time |-> NoTime, model |-> Unset, toolName |-> Unset, toolId |-> Unset]

\* the raw text of a Run, kept as one opaque value: no stage reads it
Normalized == "normalized input"

EmptyRun == [raw |-> Normalized, events |-> <<>>, warnings |-> <<>>]

\* the JSON value null
JsonNull == [kind |-> "null", hasMessages |-> FALSE, messages |-> <<>>, hasData |-> FALSE]

\* how a call of an entry point ends: it throws, or it returns a value
NoValue == <<>>
Raised(error) == [outcome |-> "raised", error |-> error, value |-> NoValue]
Returns(value) == [outcome |-> "returned", error |-> Unset, value |-> value]

\* no call of an entry point yet, no pair of parse calls
NoEntry == [arg |-> JsonNull, fn |-> "none", result |-> Returns(NoValue)]
NoCalls == <<>>

\* what a content script, or a frame without one, answers to a message
Reply(ok, error) == [defined |-> TRUE, ok |-> ok, error |-> error]
NoReply == [defined |-> FALSE, ok |-> FALSE, error |-> Unset]

\* let lastError = "No frame handled the upload."
NoFrameHandled == "No frame handled the upload."

\* the handler before an OPEN_AND_UPLOAD message
IdleWorker ==
    [at |-> "idle", provider |-> "chatgpt", attempts |-> 0, lastError |-> NoFrameHandled,
     result |-> NoReply, prompt |-> FALSE]

\* the popup before a click
ReadyPopup == [at |-> "ready", status |-> Unset]

\* the variables of the extension
Uploader == <<tab, listener, worker, acked, responses, popup>>

\* no upload is under way
NoUpload ==
    /\ tab = "none"
    /\ listener = FALSE
    /\ worker = IdleWorker
    /\ acked = FALSE
    /\ responses = <<>>
    /\ popup = ReadyPopup

\* const state = { current: null, seq: 0, pending: {...} }
InitialState == [current |-> <<>>, seq |-> 0, pending |-> EmptyPending]

\* createEvent / the object literal of start(): { seq, role, type, text: "" }
createEvent(seq, role, type) ==
    [seq |-> seq, role |-> role, type |-> type, time |-> NoTime, model |-> Unset,
     toolName |-> Unset, toolCallId |-> Unset, text |-> <<>>, data |-> NoData]

(***************************************************************************)
(* Input lines, by the pattern of PATTERNS they match                      *)
(***************************************************************************)
HeadersUserToolCall ==
    { [role |-> "user", type |-> "message"],
      [role |-> "assistant", type |-> "thought"],
      [role |-> "user", type |-> "tool_call"],
      [role |-> "tool", type |-> "tool_result"] }

\* the header patterns, by the role and type they pass to start()
Headers ==
    { [role |-> "user", type |-> "message"],
      [role |-> "assistant", type |-> "thought"],
      [role |-> "assistant", type |-> "tool_call"],
      [role |-> "tool", type |-> "tool_result"] }

Digits == {"0", "1", "2", "3", "4", "5", "6", "7", "8", "9"}

TimeA == <<"1", "0", ":", "0", "0", ":", "0", "0">>
TimeB == <<"2", "5", ":", "9", "9", ":", "9", "9">>

\* PATTERNS.TIME: /^\d{2}:\d{2}:\d{2}$/
MatchesClockTime(t) ==
    /\ Len(t) = 8
    /\ \A i \in {1, 2, 4, 5, 7, 8} : t[i] \in Digits
    /\ \A i \in {3, 6} : t[i] = ":"
    /\ t[1] \in {"0", "1"} \/ (t[1] = "2" /\ t[2] \in {"0", "1", "2", "3"})
    /\ \A i \in {4, 7} : t[i] \in {"0", "1", "2", "3", "4", "5"}
MatchesTime(t) ==
    /\ Len(t) = 8
    /\ \A i \in {1, 2, 4, 5, 7, 8} : t[i] \in Digits
    /\ \A i \in {3, 6} : t[i] = ":"

\* a line that is not of the shape of PATTERNS.TIME
BadTime == <<"9", ":", "5">>

\* the lines that take the TIME branch: those PATTERNS.TIME.test(line) accepts
TimeLinesUntested == {TimeA, BadTime}
TimeLines == { t \in {TimeA, BadTime} : MatchesTime(t) }
ModelLines == { [model |-> "gpt-4", time |-> TimeB] }
IdLines == {"c", "d"}
ToolLines == {"x"}
BlankLines == { <<>> }
ContentLines == {"text"}
\* a bullet line "- name(args)": its text token, the tool name, the trimmed args and
\* whether the args are JSON
BulletLines ==
    { [line |-> "- x(1)", tool |-> "x", args_raw |-> "1", json |-> TRUE],
      [line |-> "- y({)", tool |-> "y", args_raw |-> "{", json |-> FALSE] }

(***************************************************************************)
(* Parser helpers                                                          *)
(***************************************************************************)
RECURSIVE TrimEnd(_)
\* text.replace(/\s+$/, "")
TrimEnd(text) ==
    IF text # <<>> /\ text[Len(text)] \in Whitespace
    THEN TrimEnd(SubSeq(text, 1, Len(text) - 1))
    ELSE text

\* the inclusion test of flush()
IncludedById(e) == e.text # <<>> \/ Truthy(e.toolCallId) \/ Truthy(e.model)
Included(e) == e.text # <<>> \/ Truthy(e.toolName) \/ Truthy(e.model)

\* flush(): the parser state and the events array after it
flushClearingPending(s, evs) ==
    IF s.current = <<>>
    THEN [state |-> [s EXCEPT !.pending = EmptyPending], events |-> evs]
    ELSE LET e == [s.current[1] EXCEPT !.text = TrimEnd(@)]
         IN [state |-> [s EXCEPT !.current = <<>>, !.pending = EmptyPending],
             events |-> IF Included(e) THEN Append(evs, e) ELSE evs]
flushKeepingPending(s, evs) ==
    IF s.current = <<>>
    THEN [state |-> s, events |-> evs]
    ELSE LET e == [s.current[1] EXCEPT !.text = TrimEnd(@)]
         IN [state |-> [s EXCEPT !.current = <<>>],
             events |-> IF Included(e) THEN Append(evs, e) ELSE evs]
flush(s, evs) ==
    IF s.current = <<>>
    THEN [state |-> s, events |-> evs]
    ELSE LET e == [s.current[1] EXCEPT !.text = TrimEnd(@)]
         IN [state |-> [s EXCEPT !.current = <<>>, !.pending = EmptyPending],
             events |-> IF Included(e) THEN Append(evs, e) ELSE evs]

\* the seq of the event start() creates, n being the counter after state.seq++
AssignedSeqBeforeIncrement(n) == n - 1
AssignedSeq(n) == n

startNumberingEmitted(s, evs, role, type) ==
    LET f == flush(s, evs)
        n == Len(f.events) + 1
        p == f.state.pending
        e0 == createEvent(n, role, type)
        e == [e0 EXCEPT !.time = IF HasTime(p.time) THEN p.time ELSE @,
                        !.model = IF Truthy(p.model) THEN p.model ELSE @,
                        !.toolName = IF Truthy(p.toolName) THEN p.toolName ELSE @,
                        !.toolCallId = IF Truthy(p.toolId) THEN p.toolId ELSE @]
    IN [state |-> [f.state EXCEPT !.seq = n, !.current = <<e>>], events |-> f.events]

\* start(role, type)
start(s, evs, role, type) ==
    LET f == flush(s, evs)
        n == f.state.seq + 1
        p == f.state.pending
        e0 == createEvent(AssignedSeq(n), role, type)
        e == [e0 EXCEPT !.time = IF HasTime(p.time) THEN p.time ELSE @,
                        !.model = IF Truthy(p.model) THEN p.model ELSE @,
                        !.toolName = IF Truthy(p.toolName) THEN p.toolName ELSE @,
                        !.toolCallId = IF Truthy(p.toolId) THEN p.toolId ELSE @]
    IN [state |-> [f.state EXCEPT !.seq = n, !.current = <<e>>], events |-> f.events]

appendWithNewline(s, tokens) ==
    IF s.current = <<>> THEN s
    ELSE [s EXCEPT !.current[1].text = @ \o <<NL>> \o tokens]

\* append(text): state.current.text += (state.current.text ? "\n" : "") + text
append(s, tokens) ==
    IF s.current = <<>> THEN s
    ELSE [s EXCEPT !.current[1].text = IF @ # <<>> THEN @ \o <<NL>> \o tokens ELSE tokens]

\* JSON.parse(text.trim()) on the args of a bullet line: throws a SyntaxError unless
\* the args are JSON.  A line holds no "\n", so the second attempt of tryParseJson,
\* JSON.parse(text.trim().replace(/\n/g, "\\n")), parses the same text.
JsonParseThrows(b) == ~b.json

\* tryParseJson: the parsed value, or undefined when both attempts throw; thrown says
\* whether an exception leaves the function
tryParseJsonUncaught(b) ==
    IF JsonParseThrows(b) THEN [thrown |-> TRUE, value |-> Unset]
    ELSE [thrown |-> FALSE, value |-> b.args_raw]
tryParseJson(b) ==
    IF ~JsonParseThrows(b) THEN [thrown |-> FALSE, value |-> b.args_raw]
    ELSE IF ~JsonParseThrows(b) THEN [thrown |-> FALSE, value |-> b.args_raw]
    ELSE [thrown |-> FALSE, value |-> Unset]

\* the divider branch: flush(), and no start()
dividerLineKeepingOpen(s, evs) == [state |-> s, events |-> evs]
dividerLine(s, evs) == flush(s, evs)

\* the metadata branches of the loop: the state after a line of that kind
timeLineOverwriting(s, t) ==
    IF s.current # <<>>
    THEN [s EXCEPT !.current[1].time = t]
    ELSE [s EXCEPT !.pending.time = t]
timeLine(s, t) ==
    IF s.current # <<>>
    THEN [s EXCEPT !.current[1].time = IF HasTime(@) THEN @ ELSE t]
    ELSE [s EXCEPT !.pending.time = t]

modelLine(s, m) ==
    IF s.current # <<>>
    THEN [s EXCEPT !.current[1].model = m.model,
                   !.current[1].time = IF HasTime(@) THEN @ ELSE m.time]
    ELSE [s EXCEPT !.pending.model = m.model, !.pending.time = m.time]

idLine(s, id) ==
    IF s.current # <<>>
    THEN [s EXCEPT !.current[1].toolCallId = id]
    ELSE [s EXCEPT !.pending.toolId = id]

toolLine(s, t) ==
    IF s.current # <<>>
    THEN [s EXCEPT !.current[1].toolName = t]
    ELSE [s EXCEPT !.pending.toolName = t]

\* the tool-call branch: the state after a bullet line, or thrown when an exception
\* leaves the loop (from tryParseJson, or from calls.push when data has no calls list)
bulletLineAnyType(s, b) ==
    LET isCall == s.current # <<>>
        parsed == tryParseJson(b)
        rec == [tool |-> b.tool, args_raw |-> b.args_raw, args |-> parsed.value]
    IN [thrown |-> FALSE,
        state |-> append(IF isCall
                         THEN [s EXCEPT !.current[1].data =
                                   [present |-> TRUE, key |-> "calls",
                                    list |-> Append(IF @.present THEN @.list
                                                    ELSE <<>>, rec)]]
                         ELSE s,
                         <<b.line>>)]
bulletLineSkippingUnparsed(s, b) ==
    LET isCall == s.current # <<>> /\ s.current[1].type = "tool_call"
        parsed == tryParseJson(b)
        rec == [tool |-> b.tool, args_raw |-> b.args_raw, args |-> parsed.value]
    IN [thrown |-> FALSE,
        state |-> append(IF isCall /\ parsed.value # Unset
                         THEN [s EXCEPT !.current[1].data =
                                   [present |-> TRUE, key |-> "calls",
                                    list |-> Append(IF @.present THEN @.list
                                                    ELSE <<>>, rec)]]
                         ELSE s,
                         <<b.line>>)]
bulletLine(s, b) ==
    LET isCall == s.current # <<>> /\ s.current[1].type = "tool_call"
        data == s.current[1].data
        parsed == tryParseJson(b)
        rec == [tool |-> b.tool, args_raw |-> b.args_raw, args |-> parsed.value]
    IN IF isCall /\ ((data.present /\ data.key # "calls") \/ parsed.thrown)
       THEN [thrown |-> TRUE, state |-> s]
       ELSE [thrown |-> FALSE,
             state |-> append(IF isCall
                              THEN [s EXCEPT !.current[1].data =
                                        [present |-> TRUE, key |-> "calls",
                                         list |-> Append(IF @.present THEN @.list
                                                         ELSE <<>>, rec)]]
                              ELSE s,
                              <<b.line>>)]

\* the warnings array after a content or bullet line: append() has no branch for a
\* line met while no event is open, and nothing is pushed
warningsAfterLineWarning(s, ws) ==
    IF s.current = <<>>
    THEN Append(ws, [kind |-> "unknown_section", seq |-> 0, detail |-> <<>>])
    ELSE ws
warningsAfterLine(s, ws) == ws

(***************************************************************************)
(* The parse loop: one action per kind of line                             *)
(***************************************************************************)
Reading == pc = "parse" /\ nlines < MaxLines

\* The lines array, kept as the structure of the text read so far.  A section is a
\* header line and the lines after it up to the next header or divider line; its
\* number is the 1-based position of its header among the header lines.
\*   sections        the set of [n, type, id]: section n, opened by a header of that
\*                   type (tool_call or tool_result), holds a line "ID: id"
\*   gap.header      the number of header lines read
\*   gap.type        the type the last header names
\*   gap.closed      no section is open: no header yet, or a divider since the last
\*   gap.tool        the value of the last "Tool:" line since the last header
\*   gap.toolClosed  whether no section was open at that line
\*   gap.before, gap.beforeClosed
\*                   gap.tool and gap.toolClosed as they were at the last header
\*   gap.dropped     a content or bullet line was read since the last header while
\*                   no section was open
ToolTypes == {"tool_call", "tool_result"}

InitialGap ==
    [header |-> 0, type |-> Unset, closed |-> TRUE, tool |-> Unset, toolClosed |-> FALSE,
     before |-> Unset, beforeClosed |-> FALSE, dropped |-> FALSE]

\* gap after a content or bullet line
Dropping == [gap EXCEPT !.dropped = @ \/ gap.closed]

SameText == UNCHANGED <<sections, gap>>

\* the variables of the other entry points
OtherCalls == <<entry, calls, Uploader>>

Consume(s, evs) ==
    /\ state' = s
    /\ events' = evs
    /\ nlines' = nlines + 1
    /\ UNCHANGED <<pc, run, input, stages, chain, OtherCalls>>

\* an exception leaves parseVictoriaLog: no Run is returned
Throw ==
    /\ pc' = "error"
    /\ UNCHANGED <<nlines, state, events, run, input, stages, chain, OtherCalls>>

ReadBlank ==
    /\ Reading
    /\ \E b \in BlankLines : Consume(append(state, b), events)
    /\ SameText
    /\ UNCHANGED warnings

ReadDivider ==
    /\ Reading
    /\ LET f == dividerLine(state, events) IN Consume(f.state, f.events)
    /\ gap' = [gap EXCEPT !.closed = TRUE]
    /\ UNCHANGED <<sections, warnings>>

ReadHeader ==
    /\ Reading
    /\ \E h \in Headers :
        LET f == start(state, events, h.role, h.type)
        IN /\ Consume(f.state, f.events)
           /\ gap' = [header |-> gap.header + 1, type |-> h.type, closed |-> FALSE,
                       tool |-> Unset, toolClosed |-> FALSE,
                       before |-> gap.tool, beforeClosed |-> gap.toolClosed,
                       dropped |-> FALSE]
           /\ UNCHANGED <<sections, warnings>>

ReadTime ==
    /\ Reading
    /\ \E t \in TimeLines : Consume(timeLine(state, t), events)
    /\ SameText
    /\ UNCHANGED warnings

ReadModel ==
    /\ Reading
    /\ \E m \in ModelLines : Consume(modelLine(state, m), events)
    /\ SameText
    /\ UNCHANGED warnings

ReadId ==
    /\ Reading
    /\ \E id \in IdLines :
        /\ Consume(idLine(state, id), events)
        /\ sections' = IF gap.closed \/ gap.type \notin ToolTypes THEN sections
                       ELSE sections \cup {[n |-> gap.header, type |-> gap.type, id |-> id]}
    /\ UNCHANGED <<gap, warnings>>

ReadTool ==
    /\ Reading
    /\ \E t \in ToolLines :
        /\ Consume(toolLine(state, t), events)
        /\ gap' = [gap EXCEPT !.tool = t, !.toolClosed = gap.closed]
    /\ UNCHANGED <<sections, warnings>>

ReadBullet ==
    /\ Reading
    /\ \E b \in BulletLines :
        LET r == bulletLine(state, b)
        IN IF r.thrown
           THEN Throw /\ UNCHANGED <<warnings, gap>>
           ELSE /\ Consume(r.state, events)
                /\ warnings' = warningsAfterLine(state, warnings)
                /\ gap' = Dropping
    /\ UNCHANGED sections

ReadContent ==
    /\ Reading
    /\ \E c \in ContentLines : Consume(append(state, <<c>>), events)
    /\ warnings' = warningsAfterLine(state, warnings)
    /\ gap' = Dropping
    /\ UNCHANGED sections

\* the final flush() and the return of parseVictoriaLog: the events array lives on in
\* the Run, the locals of the call (state, the loop position) are gone
EndOfInput ==
    /\ pc = "parse"
    /\ LET f == flush(state, events)
       IN /\ events' = f.events
          /\ run' = [raw |-> Normalized, events |-> f.events, warnings |-> warnings]
    /\ state' = InitialState
    /\ nlines' = 0
    /\ gap' = InitialGap
    /\ pc' = "parsed"
    /\ UNCHANGED <<input, stages, chain, sections, warnings, OtherCalls>>

ParseStep ==
    \/ ReadBlank \/ ReadDivider \/ ReadHeader \/ ReadTime \/ ReadModel
    \/ ReadId \/ ReadTool \/ ReadBullet \/ ReadContent \/ EndOfInput

(***************************************************************************)
(* enrichParsedRun                                                         *)
(***************************************************************************)
\* run.events.slice(0, index): the positions searched for the event at position i
SearchedAllPositions(evs, i) == 1..Len(evs)
Searched(evs, i) == 1..(i - 1)

\* the predicate of .find(): e.type === "tool_call" && e.toolName === enriched.toolName
IsMatchingCallAnyType(e, name) == e.toolName = name
IsMatchingCall(e, name) == e.type = "tool_call" /\ e.toolName = name

Max(S) == CHOOSE m \in S : \A k \in S : k <= m

\* .slice(0, index).reverse().find(...): the positions of the candidates, nearest last
MatchingCalls(evs, i) ==
    { j \in Searched(evs, i) : IsMatchingCall(evs[j], evs[i].toolName) }

Min(S) == CHOOSE m \in S : \A k \in S : m <= k

\* .reverse().find(...): of the candidates, the one nearest to the event
FirstMatch(found) == Min(found)
NearestMatch(found) == Max(found)

\* the toolCallId the event at position i ends up with
InferredIdOverwriting(evs, i) ==
    LET e == evs[i]
        found == MatchingCalls(evs, i)
    IN IF e.type = "tool_result" /\ Truthy(e.toolName)
          /\ found # {} /\ Truthy(evs[NearestMatch(found)].toolCallId)
       THEN evs[NearestMatch(found)].toolCallId
       ELSE e.toolCallId
InferredId(evs, i) ==
    LET e == evs[i]
        found == MatchingCalls(evs, i)
    IN IF e.type = "tool_result" /\ ~Truthy(e.toolCallId) /\ Truthy(e.toolName)
          /\ found # {} /\ Truthy(evs[NearestMatch(found)].toolCallId)
       THEN evs[NearestMatch(found)].toolCallId
       ELSE e.toolCallId

\* enriched.data = { tool_calls: [] }
InitialData == [present |-> TRUE, key |-> "tool_calls", list |-> <<>>]

enrichEvent(evs, i) ==
    [evs[i] EXCEPT !.toolCallId = InferredId(evs, i),
                   !.data = IF ~@.present /\ evs[i].type = "tool_call"
                            THEN InitialData ELSE @]

enrichParsedRun(r) ==
    [r EXCEPT !.events = [i \in 1..Len(r.events) |-> enrichEvent(r.events, i)]]

(***************************************************************************)
(* validateParsedRun                                                       *)
(***************************************************************************)
Warning(kind, e, detail) == [kind |-> kind, seq |-> e.seq, detail |-> detail]

\* the warnings pushed for one event, given the keys of toolCallIds before it
EventWarnings(e, ids) ==
    (IF e.type = "tool_call" /\ e.role # "assistant"
     THEN <<Warning("tool_call_role", e, <<e.role>>)>> ELSE <<>>)
    \o
    (IF e.type = "tool_result" /\ e.role # "tool"
     THEN <<Warning("tool_result_role", e, <<e.role>>)>> ELSE <<>>)
    \o
    (IF e.type = "tool_result"
     THEN IF Truthy(e.toolCallId) /\ e.toolCallId \notin ids
          THEN <<Warning("no_matching_tool_call", e, <<e.toolCallId>>)>>
          ELSE IF ~Truthy(e.toolName) /\ ~Truthy(e.toolCallId)
               THEN <<Warning("no_name_or_id", e, <<>>)>>
               ELSE <<>>
     ELSE <<>>)
    \o
    (IF HasTime(e.time) /\ ~MatchesTime(e.time)
     THEN <<Warning("timestamp_format", e, e.time)>> ELSE <<>>)

\* toolCallIds.set(event.toolCallId, event): the keys after the event
IdsAfterAnyType(e, ids) ==
    IF Truthy(e.toolCallId) THEN ids \cup {e.toolCallId} ELSE ids
IdsAfter(e, ids) ==
    IF e.type = "tool_call" /\ Truthy(e.toolCallId) THEN ids \cup {e.toolCallId} ELSE ids

\* const warnings = [...run.warnings]
InitialWarningsEmpty(r) == <<>>
InitialWarnings(r) == r.warnings

\* the warnings list of the caller's Run once the call has returned: the pushes go to
\* the copy [...run.warnings], never to run.warnings itself
CallerWarningsAliased(r, out) == out.warnings
CallerWarnings(r, out) == r.warnings

RECURSIVE ValidateFrom(_, _, _, _)
\* the loop over run.events from position i on
ValidateFrom(evs, i, ids, ws) ==
    IF i > Len(evs) THEN ws
    ELSE ValidateFrom(evs, i + 1, IdsAfter(evs[i], ids),
                      ws \o EventWarnings(evs[i], IdsAfter(evs[i], ids)))

validateParsedRun(r) ==
    [r EXCEPT !.warnings = ValidateFrom(r.events, 1, {}, InitialWarnings(r))]

(***************************************************************************)
(* buildCausalityChain                                                     *)
(***************************************************************************)
Edge(a, b) == [from |-> a.seq, fromType |-> a.type, to |-> b.seq, toType |-> b.type]

\* the positions of the tool_call events that set key id in toolCallIdMap
CallPositions(evs, id) ==
    { j \in 1..Len(evs) : evs[j].type = "tool_call" /\ evs[j].toolCallId = id }

MappedFirstCall(evs, id) ==
    evs[CHOOSE j \in CallPositions(evs, id) : \A k \in CallPositions(evs, id) : j <= k]

\* toolCallIdMap.get(id) after the first loop: the last event that set the key
MappedCall(evs, id) == evs[Max(CallPositions(evs, id))]

RECURSIVE CallEdges(_, _)
\* the second loop: one edge per tool_result whose id is a key of the map
CallEdges(evs, i) ==
    IF i > Len(evs) THEN <<>>
    ELSE (IF evs[i].type = "tool_result" /\ Truthy(evs[i].toolCallId)
             /\ CallPositions(evs, evs[i].toolCallId) # {}
          THEN <<Edge(MappedCall(evs, evs[i].toolCallId), evs[i])>> ELSE <<>>)
         \o CallEdges(evs, i + 1)

RECURSIVE SequentialEdges(_, _)
\* the third loop, over adjacent pairs
SequentialEdges(evs, i) ==
    IF i >= Len(evs) THEN <<>>
    ELSE (IF evs[i].type = "thought" /\ evs[i + 1].type = "tool_call"
          THEN <<Edge(evs[i], evs[i + 1])>> ELSE <<>>)
         \o
         (IF evs[i].type = "tool_result" /\ evs[i + 1].role = "assistant"
             /\ evs[i + 1].type \in {"thought", "message"}
          THEN <<Edge(evs[i], evs[i + 1])>> ELSE <<>>)
         \o SequentialEdges(evs, i + 1)

buildCausalityChain(evs) == CallEdges(evs, 1) \o SequentialEdges(evs, 1)

(***************************************************************************)
(* processLogRun: enrich, validate and format the parsed Run               *)
(***************************************************************************)
ProcessEnrich ==
    /\ pc = "parsed"
    /\ input' = run
    /\ run' = enrichParsedRun(run)
    /\ stages' = Append(stages, "enrich")
    /\ pc' = "enriched"
    /\ UNCHANGED <<nlines, state, events, chain, sections, gap, warnings, OtherCalls>>

ProcessValidate ==
    /\ pc = "enriched"
    /\ run' = validateParsedRun(run)
    /\ input' = [run EXCEPT !.warnings = CallerWarnings(run, run')]
    /\ stages' = Append(stages, "validate")
    /\ pc' = "validated"
    /\ UNCHANGED <<nlines, state, events, chain, sections, gap, warnings, OtherCalls>>

\* formatForLLM(validatedRun): const chain = buildCausalityChain(run.events)
ProcessFormat ==
    /\ pc = "validated"
    /\ chain' = buildCausalityChain(run.events)
    /\ stages' = Append(stages, "format")
    /\ pc' = "formatted"
    /\ UNCHANGED <<nlines, state, events, run, input, sections, gap, warnings, OtherCalls>>

Init ==
    /\ NoUpload
    /\ pc = "parse"
    /\ nlines = 0
    /\ state = InitialState
    /\ events = <<>>
    /\ run = EmptyRun
    /\ input = EmptyRun
    /\ stages = <<>>
    /\ chain = <<>>
    /\ sections = {}
    /\ gap = InitialGap
    /\ warnings = <<>>
    /\ entry = NoEntry
    /\ calls = NoCalls

Next == ParseStep \/ ProcessEnrich \/ ProcessValidate \/ ProcessFormat

Spec == Init /\ [][Next]_vars

(***************************************************************************)
(* The exported stages called on any Run, in any order                     *)
(***************************************************************************)
Shape(role, type, toolName, toolCallId, time, data) ==
    [role |-> role, type |-> type, toolName |-> toolName, toolCallId |-> toolCallId,
     time |-> time, data |-> data]

SomeCalls ==
    [present |-> TRUE, key |-> "calls",
     list |-> << [tool |-> "y", args_raw |-> "1", args |-> "1"] >>]

\* the events a Run is drawn from, without their seq
EventShapes ==
    { Shape("assistant", "tool_call", "x", "c", NoTime, NoData),
      Shape("assistant", "tool_call", "x", Unset, NoTime, NoData),
      Shape("assistant", "tool_call", "y", "d", TimeA, NoData),
      Shape("assistant", "tool_call", "y", "c", NoTime, SomeCalls),
      Shape("user", "tool_call", "x", "d", NoTime, NoData),
      Shape("tool", "tool_result", "x", Unset, NoTime, NoData),
      Shape("tool", "tool_result", "y", Unset, NoTime, NoData),
      Shape("tool", "tool_result", "x", "d", NoTime, NoData),
      Shape("tool", "tool_result", Unset, "c", NoTime, NoData),
      Shape("tool", "tool_result", Unset, Unset, TimeB, NoData),
      Shape("assistant", "tool_result", "x", Unset, NoTime, NoData),
      Shape("assistant", "thought", Unset, Unset, NoTime, NoData),
      Shape("assistant", "message", Unset, Unset, BadTime, NoData),
      Shape("user", "message", Unset, Unset, NoTime, NoData) }

EventOf(shape, seq) ==
    [seq |-> seq, role |-> shape.role, type |-> shape.type, time |-> shape.time,
     model |-> Unset, toolName |-> shape.toolName, toolCallId |-> shape.toolCallId,
     text |-> <<"text">>, data |-> shape.data]

\* warnings a Run may already hold
IncomingWarnings ==
    { <<>>,
      << [kind |-> "incoming", seq |-> 0, detail |-> <<"a">>],
         [kind |-> "incoming", seq |-> 0, detail |-> <<"b">>] >> }

RunOf(shapes, w) ==
    [raw |-> Normalized, events |-> [i \in 1..Len(shapes) |-> EventOf(shapes[i], i)],
     warnings |-> w]

Calling == pc = "call" /\ Len(stages) < MaxCalls

CallEnrich ==
    /\ Calling
    /\ input' = run
    /\ run' = enrichParsedRun(run)
    /\ stages' = Append(stages, "enrich")
    /\ UNCHANGED <<pc, nlines, state, events, chain, sections, gap, warnings, OtherCalls>>

CallValidate ==
    /\ Calling
    /\ run' = validateParsedRun(run)
    /\ input' = [run EXCEPT !.warnings = CallerWarnings(run, run')]
    /\ stages' = Append(stages, "validate")
    /\ UNCHANGED <<pc, nlines, state, events, chain, sections, gap, warnings, OtherCalls>>

CallLink ==
    /\ Calling
    /\ input' = run
    /\ chain' = buildCausalityChain(run.events)
    /\ stages' = Append(stages, "format")
    /\ UNCHANGED <<pc, nlines, state, events, run, sections, gap, warnings, OtherCalls>>

InitCalls ==
    /\ NoUpload
    /\ pc = "call"
    /\ nlines = 0
    /\ state = InitialState
    /\ events = <<>>
    /\ \E n \in 0..MaxEvents : \E shapes \in [1..n -> EventShapes] :
          \E w \in IncomingWarnings : run = RunOf(shapes, w)
    /\ input = EmptyRun
    /\ stages = <<>>
    /\ chain = <<>>
    /\ sections = {}
    /\ gap = InitialGap
    /\ warnings = <<>>
    /\ entry = NoEntry
    /\ calls = NoCalls

NextCalls == CallEnrich \/ CallValidate \/ CallLink

SpecCalls == InitCalls /\ [][NextCalls]_vars

(***************************************************************************)
(* parseVictoriaLog as a function of the lines of its input                *)
(***************************************************************************)
Line(kind, v) == [kind |-> kind, v |-> v]

\* one iteration of the loop on the locals p of a call
parseLine(p, l) ==
    LET s == p.state
        flushed == dividerLine(s, p.events)
        started == start(s, p.events, l.v.role, l.v.type)
        bullet == bulletLine(s, l.v)
        to(s1) == [p EXCEPT !.state = s1]
    IN CASE l.kind = "blank" -> to(append(s, l.v))
         [] l.kind = "divider" -> [p EXCEPT !.state = flushed.state,
                                            !.events = flushed.events]
         [] l.kind = "header" -> [p EXCEPT !.state = started.state,
                                           !.events = started.events]
         [] l.kind = "time" -> to(timeLine(s, l.v))
         [] l.kind = "model" -> to(modelLine(s, l.v))
         [] l.kind = "id" -> to(idLine(s, l.v))
         [] l.kind = "tool" -> to(toolLine(s, l.v))
         [] l.kind = "bullet" ->
                IF bullet.thrown THEN [p EXCEPT !.thrown = TRUE]
                ELSE [p EXCEPT !.state = bullet.state,
                               !.warnings = warningsAfterLine(s, @)]
         [] l.kind = "content" -> [p EXCEPT !.state = append(s, <<l.v>>),
                                            !.warnings = warningsAfterLine(s, @)]

\* the locals of a call before its first line
InitialLocals ==
    [state |-> InitialState, events |-> <<>>, warnings |-> <<>>, thrown |-> FALSE]

RECURSIVE parseLines(_, _, _)
parseLines(p, lines, i) ==
    IF i > Len(lines) \/ p.thrown THEN p
    ELSE parseLines(parseLine(p, lines[i]), lines, i + 1)

\* flush(); return { raw: normalized, events, warnings }
Returned(raw, p) ==
    [raw |-> raw, events |-> flush(p.state, p.events).events, warnings |-> p.warnings]

\* the call on a text of these lines: whether it throws, and the Run it returns
parseVictoriaLog(lines) ==
    LET p == parseLines(InitialLocals, lines, 1)
    IN [thrown |-> p.thrown, run |-> IF p.thrown THEN EmptyRun ELSE Returned(lines, p)]

(***************************************************************************)
(* Two parseVictoriaLog calls by independent callers.  A call is           *)
(* synchronous; the calls are interleaved line by line all the same, which *)
(* includes one call after the other.                                      *)
(***************************************************************************)
CallLines ==
    { Line("header", [role |-> "user", type |-> "message"]),
      Line("header", [role |-> "assistant", type |-> "tool_call"]),
      Line("tool", "x"),
      Line("content", "text"),
      Line("divider", <<>>) }

Callers == {1, 2}
Other(c) == 3 - c

\* const state = { current: null, seq: 0, pending: ... }: created inside the call, so
\* whatever the other call holds does not reach it
NewStateKeepingSeq(other) == [InitialState EXCEPT !.seq = other.seq]
NewState(other) == InitialState

IdleCall(lines) ==
    [phase |-> "idle", lines |-> lines, at |-> 0, overlap |-> FALSE,
     locals |-> InitialLocals, result |-> EmptyRun]

BeginCall(c) ==
    /\ pc = "two"
    /\ calls[c].phase = "idle"
    /\ calls' = [calls EXCEPT
                    ![c].phase = "running",
                    ![c].overlap = calls[Other(c)].phase = "running",
                    ![c].locals = [InitialLocals EXCEPT
                                      !.state = NewState(calls[Other(c)].locals.state)]]
    /\ UNCHANGED <<pc, nlines, state, events, run, input, stages, chain, sections, gap,
                   warnings, entry, Uploader>>

LineOfCall(c) ==
    /\ pc = "two"
    /\ calls[c].phase = "running"
    /\ calls[c].at < Len(calls[c].lines)
    /\ LET p == parseLine(calls[c].locals, calls[c].lines[calls[c].at + 1])
       IN calls' = [calls EXCEPT ![c].at = @ + 1,
                                 ![c].locals = p,
                                 ![c].phase = IF p.thrown THEN "error" ELSE @]
    /\ UNCHANGED <<pc, nlines, state, events, run, input, stages, chain, sections, gap,
                   warnings, entry, Uploader>>

ReturnCall(c) ==
    /\ pc = "two"
    /\ calls[c].phase = "running"
    /\ calls[c].at = Len(calls[c].lines)
    /\ calls' = [calls EXCEPT
                    ![c].phase = "done",
                    ![c].locals.state = flush(calls[c].locals.state,
                                              calls[c].locals.events).state,
                    ![c].result = Returned(calls[c].lines, calls[c].locals)]
    /\ UNCHANGED <<pc, nlines, state, events, run, input, stages, chain, sections, gap,
                   warnings, entry, Uploader>>

InitTwo ==
    /\ NoUpload
    /\ pc = "two"
    /\ nlines = 0
    /\ state = InitialState
    /\ events = <<>>
    /\ run = EmptyRun
    /\ input = EmptyRun
    /\ stages = <<>>
    /\ chain = <<>>
    /\ sections = {}
    /\ gap = InitialGap
    /\ warnings = <<>>
    /\ entry = NoEntry
    /\ \E n1, n2 \in 0..MaxLinesEach :
          \E l1 \in [1..n1 -> CallLines] : \E l2 \in [1..n2 -> CallLines] :
              calls = <<IdleCall(l1), IdleCall(l2)>>

NextTwo == \E c \in Callers : BeginCall(c) \/ LineOfCall(c) \/ ReturnCall(c)

SpecTwo == InitTwo /\ [][NextTwo]_vars

(***************************************************************************)
(* The JSON entry points (formatter.ts) and the format utilities (utils.ts)*)
(* A JSON value is a record with its kind; a string argument is a record   *)
(* with what JSON.parse makes of it and with its lines.                    *)
(***************************************************************************)
\* msg.timestamp values: absent, a date the Date constructor parses, and text it
\* does not parse
Timestamps == {Unset, "2026-01-01", "not-a-date"}

\* new Date(ts) is a valid date
IsValidDate(ts) == ts = "2026-01-01"

\* new Date(ts).toISOString(): throws a RangeError on an invalid date
toISOString(ts) ==
    IF IsValidDate(ts)
    THEN [thrown |-> FALSE, value |-> <<"2026-01-01T00:00:00.000Z">>]
    ELSE [thrown |-> TRUE, value |-> NoTime]

\* new Date(): the clock at the call
Clock == { <<"2026-11-01T12:00:00.000Z">> }

Message(role, content, timestamp, metadata) ==
    [role |-> role, content |-> content, timestamp |-> timestamp, metadata |-> metadata]

\* entries {role, content, timestamp?, metadata?}; an absent field is Unset
Messages ==
    { Message("user", "hi", Unset, Unset),
      Message("assistant", "hi", "2026-01-01", "meta"),
      Message("system", Unset, Unset, Unset),
      Message(Unset, "hi", "2026-01-01", Unset),
      Message("user", "hi", "not-a-date", Unset) }

MessageLists == UNION { [1..n -> Messages] : n \in 0..MaxMessages }

JsonArray(items) ==
    [kind |-> "array", hasMessages |-> FALSE, messages |-> items, hasData |-> FALSE]
JsonObject(hasMessages, messages, hasData) ==
    [kind |-> "object", hasMessages |-> hasMessages, messages |-> messages,
     hasData |-> hasData]

\* the entries of an array, the messages of an object
JsonValues ==
    { JsonArray(m) : m \in MessageLists }
        \cup { JsonObject(TRUE, m, d) : m \in MessageLists, d \in BOOLEAN }
        \cup { JsonObject(FALSE, <<>>, d) : d \in BOOLEAN }
        \cup { JsonNull }

\* a string: json says whether JSON.parse accepts it, value is what it parses to,
\* lines are its lines
String(json, value, lines) ==
    [kind |-> "string", json |-> json, value |-> value, lines |-> lines]

\* texts that are not JSON: "", "USER\ntext", "ASSISTANT [TOOL_CALL]\n- y({)", "text"
PlainTexts ==
    { <<>>,
      << Line("header", [role |-> "user", type |-> "message"]), Line("content", "text") >>,
      << Line("header", [role |-> "assistant", type |-> "tool_call"]),
         Line("bullet", [line |-> "- y({)", tool |-> "y", args_raw |-> "{",
                         json |-> FALSE]) >>,
      << Line("content", "text") >> }

\* JSON.stringify(v): one line, which no pattern of the parser but content matches
Stringified(v) == String(TRUE, v, << Line("content", "json") >>)

Strings ==
    { String(FALSE, JsonNull, t) : t \in PlainTexts } \cup { Stringified(v) : v \in JsonValues }

\* JSON.parse(content): throws a SyntaxError unless the string is JSON
JsonParse(c) == [thrown |-> ~c.json, value |-> c.value]

\* events.push({ seq: seq++, role, type: "message", time, text, data }) for msg
JsonEvent(msg, seq, now) ==
    [createEvent(seq,
                 IF msg.role = "user" THEN "user"
                 ELSE IF msg.role = "assistant" THEN "assistant" ELSE "tool",
                 "message")
        EXCEPT !.time = IF Truthy(msg.timestamp) THEN toISOString(msg.timestamp).value
                        ELSE now,
               !.text = IF Truthy(msg.content) THEN <<msg.content>> ELSE <<>>,
               !.data = [present |-> TRUE,
                         key |-> IF Truthy(msg.metadata) THEN msg.metadata ELSE Unset,
                         list |-> <<>>]]

\* the entries the loop of parseJsonLog throws on
ThrowingMessages(messages) ==
    { i \in 1..Len(messages) :
        Truthy(messages[i].timestamp) /\ toISOString(messages[i].timestamp).thrown }

parseJsonLog(jsonData, now) ==
    LET messages == IF jsonData.kind = "array" THEN jsonData.messages
                    ELSE IF jsonData.hasMessages THEN jsonData.messages ELSE <<>>
    IN IF jsonData.kind = "null" THEN Raised("TypeError")
       ELSE IF ThrowingMessages(messages) # {} THEN Raised("RangeError")
       ELSE Returns([raw |-> jsonData,
                     events |-> [i \in 1..Len(messages) |-> JsonEvent(messages[i], i, now)],
                     warnings |-> <<>>])

parseJsonLogRaw(arg, now) ==
    IF arg.kind = "string"
    THEN IF JsonParse(arg).thrown THEN Raised("Invalid JSON format")
         ELSE parseJsonLog(JsonParse(arg).value, now)
    ELSE parseJsonLog(arg, now)

\* isJsonLog: !!(data.messages || data.data), false when anything in the try throws
isJsonLogUncaught(content) ==
    IF JsonParse(content).thrown THEN Raised("SyntaxError")
    ELSE IF JsonParse(content).value.kind = "null" THEN Raised("TypeError")
    ELSE Returns(JsonParse(content).value.hasMessages \/ JsonParse(content).value.hasData)
isJsonLog(content) ==
    IF JsonParse(content).thrown \/ JsonParse(content).value.kind = "null"
    THEN Returns(FALSE)
    ELSE Returns(JsonParse(content).value.hasMessages \/ JsonParse(content).value.hasData)

\* msg.role?.toUpperCase() || "USER"
UpperRole(role) ==
    CASE role = "user" -> "USER"
      [] role = "assistant" -> "ASSISTANT"
      [] role = "system" -> "SYSTEM"
      [] OTHER -> "USER"

\* the text a message adds: its role line, its content line and a blank line
RECURSIVE VictoriaLines(_, _)
VictoriaLines(messages, i) ==
    IF i > Len(messages) THEN <<>>
    ELSE << UpperRole(messages[i].role), messages[i].content, "" >>
             \o VictoriaLines(messages, i + 1)

\* String.prototype.trim on the lines built: the empty lines at both ends go
RECURSIVE TrimLines(_)
TrimLines(ls) ==
    IF ls = <<>> THEN ls
    ELSE IF ls[1] = "" THEN TrimLines(Tail(ls))
    ELSE IF ls[Len(ls)] = "" THEN TrimLines(SubSeq(ls, 1, Len(ls) - 1))
    ELSE ls

convertJsonToVictoria(jsonData) ==
    TrimLines(VictoriaLines(IF jsonData.hasMessages THEN jsonData.messages ELSE <<>>, 1))

normalizeLogFormat(content) ==
    IF isJsonLog(content).outcome = "raised" THEN isJsonLog(content)
    ELSE IF isJsonLog(content).value
         THEN Returns(convertJsonToVictoria(JsonParse(content).value))
         ELSE Returns(content.lines)

Entering(kinds) ==
    /\ pc = "entry"
    /\ Len(stages) < MaxCalls
    /\ entry.arg.kind \in kinds

Enter(fn, result) ==
    /\ entry' = [entry EXCEPT !.fn = fn, !.result = result]
    /\ stages' = Append(stages, fn)
    /\ UNCHANGED <<pc, nlines, state, events, run, input, chain, sections, gap, warnings,
                   calls, Uploader>>

CallParseJsonLog ==
    /\ Entering({"array", "object", "null"})
    /\ \E now \in Clock : Enter("parseJsonLog", parseJsonLog(entry.arg, now))

CallParseJsonLogRaw ==
    /\ Entering({"string", "array", "object", "null"})
    /\ \E now \in Clock : Enter("parseJsonLogRaw", parseJsonLogRaw(entry.arg, now))

CallIsJsonLog ==
    /\ Entering({"string"})
    /\ Enter("isJsonLog", isJsonLog(entry.arg))

CallNormalizeLogFormat ==
    /\ Entering({"string"})
    /\ Enter("normalizeLogFormat", normalizeLogFormat(entry.arg))

CallParseVictoriaLog ==
    /\ Entering({"string"})
    /\ LET r == parseVictoriaLog(entry.arg.lines)
       IN Enter("parseVictoriaLog", IF r.thrown THEN Raised("Error") ELSE Returns(r.run))

InitJson ==
    /\ NoUpload
    /\ pc = "entry"
    /\ nlines = 0
    /\ state = InitialState
    /\ events = <<>>
    /\ run = EmptyRun
    /\ input = EmptyRun
    /\ stages = <<>>
    /\ chain = <<>>
    /\ sections = {}
    /\ gap = InitialGap
    /\ warnings = <<>>
    /\ calls = NoCalls
    /\ \E arg \in Strings \cup JsonValues : entry = [NoEntry EXCEPT !.arg = arg]

NextJson ==
    \/ CallParseJsonLog
    \/ CallParseJsonLogRaw
    \/ CallIsJsonLog
    \/ CallNormalizeLogFormat
    \/ CallParseVictoriaLog

SpecJson == InitJson /\ [][NextJson]_vars

(***************************************************************************)
(* parseVictoriaLog called on a text that is kept, so that what it returns *)
(* can be set against the lines it was given                               *)
(***************************************************************************)
TextLines ==
    { Line("header", [role |-> "user", type |-> "message"]),
      Line("header", [role |-> "assistant", type |-> "tool_call"]),
      Line("divider", <<>>),
      Line("blank", <<>>),
      Line("blank", <<SP>>),
      Line("time", TimeA),
      Line("model", [model |-> "gpt-4", time |-> TimeB]),
      Line("model", [model |-> "o1", time |-> TimeA]),
      Line("tool", "x"),
      Line("tool", "y"),
      Line("id", "c"),
      Line("id", "d"),
      Line("bullet", [line |-> "- x(1)", tool |-> "x", args_raw |-> "1", json |-> TRUE]),
      Line("bullet", [line |-> "- y({)", tool |-> "y", args_raw |-> "{", json |-> FALSE]),
      Line("content", "text") }

ParseText ==
    /\ pc = "text"
    /\ entry.fn = "none"
    /\ LET r == parseVictoriaLog(entry.arg.lines)
       IN entry' = [entry EXCEPT !.fn = "parseVictoriaLog",
                                 !.result = IF r.thrown THEN Raised("Error")
                                            ELSE Returns(r.run)]
    /\ UNCHANGED <<pc, nlines, state, events, run, input, stages, chain, sections, gap,
                   warnings, calls, Uploader>>

InitText ==
    /\ NoUpload
    /\ pc = "text"
    /\ nlines = 0
    /\ state = InitialState
    /\ events = <<>>
    /\ run = EmptyRun
    /\ input = EmptyRun
    /\ stages = <<>>
    /\ chain = <<>>
    /\ sections = {}
    /\ gap = InitialGap
    /\ warnings = <<>>
    /\ calls = NoCalls
    /\ \E n \in 0..MaxTextLines : \E lines \in [1..n -> TextLines] :
          entry = [NoEntry EXCEPT !.arg = String(FALSE, JsonNull, lines)]

NextText == ParseText

SpecText == InitText /\ [][NextText]_vars

(***************************************************************************)
(* The upload of the extension: the popup sends OPEN_AND_UPLOAD, the       *)
(* background worker opens the provider tab, waits for it to load, sends   *)
(* the files to its content script and answers.  The browser and the       *)
(* content script are the environment: the tab is created and loads on its *)
(* own, and every answer to UPLOAD_FILES is one the content script may     *)
(* give.  The clock of retrySendFiles is counted in attempts.              *)
(***************************************************************************)
Uploaded == "Provider opened. Files uploaded."
UploadFailed == "Upload failed."
ScriptError == "content script error"
NoReceiver == "Could not establish connection. Receiving end does not exist."

\* what one frame answers: chrome.runtime.lastError or no answer (null or undefined),
\* ok: true, or ok: false with or without an error
FrameReplies == {NoReply, Reply(TRUE, Unset), Reply(FALSE, ScriptError), Reply(FALSE, Unset)}

\* one call of sendFilesToTab, as the environment answers it: whether getAllFrames
\* throws, the answer of each frame, and the outcome of the sendMessage of the last line
SendCalls ==
    { [framesThrow |-> t, frames |-> f, fallback |-> b] :
        t \in BOOLEAN,
        f \in UNION { [1..n -> FrameReplies] : n \in 0..MaxFrames },
        b \in {Raised(NoReceiver)} \cup { Returns(r) : r \in FrameReplies } }

\* sendFilesToTab: the first answer with ok of the frames, or else what
\* chrome.tabs.sendMessage(tabId, message) gives, which rejects without a receiver
sendFilesToTab(call) ==
    LET oks == { i \in 1..Len(call.frames) : call.frames[i].defined /\ call.frames[i].ok }
    IN IF ~call.framesThrow /\ oks # {}
       THEN Returns(call.frames[CHOOSE i \in oks : \A j \in oks : i <= j])
       ELSE call.fallback

\* a content script answers ok: true to a message of the call that reaches it
Acknowledged(call) ==
    LET r == sendFilesToTab(call) IN r.outcome = "returned" /\ r.value.defined /\ r.value.ok

\* lastError = result?.error || lastError
NextLastError(reply, lastError) ==
    IF reply.defined /\ reply.error # Unset THEN reply.error ELSE lastError

\* sendResponse(...)
Response(ok, error, result) == [ok |-> ok, error |-> error, result |-> result]
RespondOk(result) == responses' = Append(responses, Response(TRUE, Unset, result))
RespondError(error) == responses' = Append(responses, Response(FALSE, error, NoReply))

\* the handler once retrySendFiles has returned result: with a prompt it waits
\* 1500 ms and calls retrySendPrompt, and then, or at once, sendResponse({ ok: true,
\* result })
AfterUpload(result) ==
    IF worker.prompt
    THEN /\ worker' = [worker EXCEPT !.at = "pausing", !.result = result]
         /\ UNCHANGED responses
    ELSE /\ worker' = [worker EXCEPT !.at = "done", !.result = result]
         /\ RespondOk(result)

Uploading == pc = "upload"

Providers == {"chatgpt", "gemini", "claude"}

\* const timeoutMs = provider === "gemini" ? 20000 : 12000, in turns of the loop
Timeout(provider) == IF provider = "gemini" THEN MaxAttempts + 1 ELSE MaxAttempts

Parsers ==
    <<pc, nlines, state, events, run, input, stages, chain, sections, gap, warnings,
      entry, calls>>

\* the click handler up to its await of chrome.runtime.sendMessage: readFilesAsPayload
\* may throw; the message holds the prompt of the popup, and without one the handler
\* of the worker takes the prompt that loadPromptSettings gives
Click ==
    /\ Uploading
    /\ popup.at = "ready"
    /\ \E readable, prompt, stored \in BOOLEAN : \E provider \in Providers :
          IF readable
          THEN /\ popup' = [at |-> "awaiting", status |-> "Opening provider"]
               /\ worker' = [IdleWorker EXCEPT !.at = "creating",
                                               !.provider = provider,
                                               !.prompt = prompt \/ stored]
          ELSE /\ popup' = [at |-> "shown", status |-> UploadFailed]
               /\ UNCHANGED worker
    /\ UNCHANGED <<Parsers, tab, listener, acked, responses>>

\* the browser creates the tab, which starts to load
TabCreated ==
    /\ Uploading
    /\ worker.at = "creating"
    /\ tab = "none"
    /\ tab' = "loading"
    /\ UNCHANGED <<Parsers, listener, worker, acked, responses, popup>>

\* chrome.tabs.create rejects: the catch of the handler answers
CreateRejects ==
    /\ Uploading
    /\ worker.at = "creating"
    /\ tab = "none"
    /\ worker' = [worker EXCEPT !.at = "done"]
    /\ RespondError("Failed to open provider.")
    /\ UNCHANGED <<Parsers, tab, listener, acked, popup>>

\* the await of chrome.tabs.create resumes: waitForTabComplete(tab.id) registers its
\* listener, whatever the status of the tab is by then
CreateResolves ==
    /\ Uploading
    /\ worker.at = "creating"
    /\ tab # "none"
    /\ listener' = TRUE
    /\ worker' = [worker EXCEPT !.at = "waiting"]
    /\ UNCHANGED <<Parsers, tab, acked, responses, popup>>

\* the tab finishes loading and the browser fires onUpdated with status "complete":
\* a registered listener removes itself and resolves, and retrySendFiles starts; with
\* no listener registered the event is delivered to nobody
TabCompletes ==
    /\ Uploading
    /\ tab = "loading"
    /\ tab' = "complete"
    /\ IF listener
       THEN /\ listener' = FALSE
            /\ worker' = [worker EXCEPT !.at = "sending"]
       ELSE UNCHANGED <<listener, worker>>
    /\ UNCHANGED <<Parsers, acked, responses, popup>>

\* one turn of the loop of retrySendFiles within the timeout
Attempt ==
    /\ Uploading
    /\ worker.at = "sending"
    /\ worker.attempts < Timeout(worker.provider)
    /\ \E call \in SendCalls :
        LET r == sendFilesToTab(call)
        IN /\ acked' = (acked \/ Acknowledged(call))
           /\ IF r.outcome = "raised"
              THEN /\ worker' = [worker EXCEPT !.at = "done"]
                   /\ RespondError(r.error)
              ELSE IF r.value.defined /\ r.value.ok
              THEN AfterUpload(r.value)
              ELSE /\ worker' = [worker EXCEPT
                                    !.at = "sleeping",
                                    !.attempts = @ + 1,
                                    !.lastError = NextLastError(r.value, @)]
                   /\ UNCHANGED responses
    /\ UNCHANGED <<Parsers, tab, listener, popup>>

\* setTimeout(resolve, 600) fires
TimerFires ==
    /\ Uploading
    /\ worker.at = "sleeping"
    /\ worker' = [worker EXCEPT !.at = "sending"]
    /\ UNCHANGED <<Parsers, tab, listener, acked, responses, popup>>

\* the timeout of retrySendFiles has passed: return { ok: false, error: lastError }
GiveUp ==
    /\ Uploading
    /\ worker.at = "sending"
    /\ worker.attempts >= Timeout(worker.provider)
    /\ AfterUpload(Reply(FALSE, worker.lastError))
    /\ UNCHANGED <<Parsers, tab, listener, acked, popup>>

\* setTimeout(resolve, 1500) fires
PromptTimerFires ==
    /\ Uploading
    /\ worker.at = "pausing"
    /\ worker' = [worker EXCEPT !.at = "prompting"]
    /\ UNCHANGED <<Parsers, tab, listener, acked, responses, popup>>

\* retrySendPrompt returns, and its result is dropped, or it throws
PromptDone ==
    /\ Uploading
    /\ worker.at = "prompting"
    /\ worker' = [worker EXCEPT !.at = "done"]
    /\ \E thrown \in BOOLEAN :
          IF thrown THEN RespondError(NoReceiver) ELSE RespondOk(worker.result)
    /\ UNCHANGED <<Parsers, tab, listener, acked, popup>>

\* the await of the popup resumes with the response
PopupReceives ==
    /\ Uploading
    /\ popup.at = "awaiting"
    /\ responses # <<>>
    /\ LET result == responses[1]
       IN popup' = [at |-> "shown",
                    status |-> IF result.ok THEN Uploaded
                               ELSE IF result.error # Unset THEN result.error
                               ELSE UploadFailed]
    /\ UNCHANGED <<Parsers, tab, listener, worker, acked, responses>>

InitUpload ==
    /\ NoUpload
    /\ pc = "upload"
    /\ nlines = 0
    /\ state = InitialState
    /\ events = <<>>
    /\ run = EmptyRun
    /\ input = EmptyRun
    /\ stages = <<>>
    /\ chain = <<>>
    /\ sections = {}
    /\ gap = InitialGap
    /\ warnings = <<>>
    /\ entry = NoEntry
    /\ calls = NoCalls

NextUpload ==
    \/ Click \/ TabCreated \/ CreateRejects \/ CreateResolves \/ TabCompletes
    \/ Attempt \/ TimerFires \/ GiveUp \/ PromptTimerFires \/ PromptDone
    \/ PopupReceives

SpecUpload == InitUpload /\ [][NextUpload]_vars

\* the tab does finish loading, timers fire, and every await resumes
SpecUploadFair ==
    /\ SpecUpload
    /\ WF_vars(TabCreated) /\ WF_vars(CreateResolves) /\ WF_vars(TabCompletes)
    /\ WF_vars(Attempt) /\ WF_vars(TimerFires) /\ WF_vars(GiveUp)
    /\ WF_vars(PromptTimerFires) /\ WF_vars(PromptDone) /\ WF_vars(PopupReceives)

(***************************************************************************)
(* Properties                                                              *)
(***************************************************************************)
Last(q) == q[Len(q)]
LastStage == IF stages = <<>> THEN "none" ELSE Last(stages)
LastTwoStages == IF Len(stages) < 2 THEN <<>> ELSE SubSeq(stages, Len(stages) - 1, Len(stages))

\* a step of the parse loop that closes the open event (a divider, a header or the
\* end of the input met while an event is open)
ClosesEvent ==
    /\ pc = "parse"
    /\ state.current # <<>>
    /\ \/ state'.current = <<>>
       \/ state'.current[1].seq # state.current[1].seq

HasContent(e) == \E i \in 1..Len(e.text) : e.text[i] \notin Whitespace

\* C1: every event in the parser's event list has a non-empty text, a toolName or a
\* model, and an event that is closed with none of the three (its text empty or all
\* whitespace) is not added to the list.
C1_Inclusion ==
    /\ [](\A i \in 1..Len(events) :
            events[i].text # <<>> \/ events[i].toolName # Unset \/ events[i].model # Unset)
    /\ [][ClosesEvent /\ ~HasContent(state.current[1])
             /\ state.current[1].toolName = Unset /\ state.current[1].model = Unset
          => events' = events]_vars

\* a parse that emitted an event without text and discarded another one
C1_Witness ==
    /\ pc = "parsed"
    /\ \E i \in 1..Len(run.events) : run.events[i].text = <<>>
    /\ \E i \in 1..Len(run.events) : run.events[i].seq > i

\* C2: the events of the Run returned by parseVictoriaLog carry the sequence numbers
\* 1, 2, 3, ... in emission order.
C2_ConsecutiveSeq ==
    pc = "parsed" => \A i \in 1..Len(run.events) : run.events[i].seq = i

\* C3: the seq values of the events of the parser's list are positive, pairwise
\* distinct and strictly increasing in list order.
C3_IncreasingSeq ==
    /\ \A i \in 1..Len(events) : events[i].seq >= 1
    /\ \A i, j \in 1..Len(events) : i < j => events[i].seq < events[j].seq

\* a returned Run of two events with a gap in the numbering between them
C3_Witness ==
    /\ pc = "parsed"
    /\ Len(run.events) = 2
    /\ run.events[1].seq = 1
    /\ run.events[2].seq > 2

\* C4: enrichParsedRun applied to its own output returns that output unchanged.
C4_EnrichIdempotent ==
    LastTwoStages = <<"enrich", "enrich">> => run = input

\* enriched twice, a Run in which a result got the id of a call of its tool name and
\* another call of that name has no id
C4_Witness ==
    /\ LastTwoStages = <<"enrich", "enrich">>
    /\ \E i, j, k \in 1..Len(run.events) :
        /\ j < i
        /\ run.events[j].type = "tool_call" /\ run.events[j].toolName = "x"
        /\ run.events[j].toolCallId = "c"
        /\ run.events[i].type = "tool_result" /\ run.events[i].toolName = "x"
        /\ run.events[i].toolCallId = "c"
        /\ run.events[k].type = "tool_call" /\ run.events[k].toolName = "x"
        /\ run.events[k].toolCallId = Unset

\* C5: a toolCallId that enrichParsedRun sets on an event is set on a tool_result and
\* is the toolCallId of a tool_call event at a strictly earlier position of the list.
C5_BackwardOnly ==
    LastStage = "enrich" =>
        \A i \in 1..Len(run.events) :
            run.events[i].toolCallId # input.events[i].toolCallId =>
                /\ run.events[i].type = "tool_result"
                /\ \E j \in 1..(i - 1) :
                    /\ input.events[j].type = "tool_call"
                    /\ input.events[j].toolCallId = run.events[i].toolCallId

\* an enrichment that set an id on a result which is followed by a call of the same
\* tool name carrying another id
C5_Witness ==
    /\ LastStage = "enrich"
    /\ \E i, j \in 1..Len(run.events) :
        /\ i < j
        /\ run.events[i].toolCallId # input.events[i].toolCallId
        /\ input.events[j].type = "tool_call"
        /\ input.events[j].toolName = input.events[i].toolName
        /\ input.events[j].toolCallId \notin {Unset, run.events[i].toolCallId}

\* C6: the warnings of validateParsedRun(r) start with the warnings of r, in their
\* order, and are at least as many.
C6_WarningsGrow ==
    LastStage = "validate" =>
        /\ Len(run.warnings) >= Len(input.warnings)
        /\ SubSeq(run.warnings, 1, Len(input.warnings)) = input.warnings

\* a validation that appended to a Run that already held warnings
C6_Witness ==
    /\ LastStage = "validate"
    /\ input.warnings # <<>>
    /\ Len(run.warnings) > Len(input.warnings)

\* C7: validateParsedRun applied to its own output adds no warning.
C7_ValidateIdempotent ==
    LastTwoStages = <<"validate", "validate">> => run.warnings = input.warnings

\* the step that closes an open tool_result event whose header was preceded, with no
\* header in between, by a "Tool:" line
ClosesResultAfterTool ==
    /\ ClosesEvent
    /\ state.current[1].type = "tool_result"
    /\ gap.before # Unset

EmitsWithToolName(name) ==
    /\ Len(events') = Len(events) + 1
    /\ Last(events').seq = state.current[1].seq
    /\ Last(events').toolName = name

WarningsFor(seq, id) ==
    { k \in 1..Len(run.warnings) :
        run.warnings[k].seq = seq /\ run.warnings[k].detail = <<id>> }

\* C9 as stated: after parse, enrich and validate, each TOOL [TOOL_RESULT] section
\* holding a line "ID: c", no earlier tool_call section holding such a line, has
\* exactly one warning referencing c.
C9_OrphanSectionWarned ==
    pc = "validated" =>
        \A s \in sections :
            (/\ s.type = "tool_result"
             /\ ~\E q \in sections : q.type = "tool_call" /\ q.n < s.n /\ q.id = s.id)
            => Cardinality(WarningsFor(s.n, s.id)) = 1

\* C9: after parse, enrich and validate, each tool_result event of the Run whose
\* toolCallId is c, no earlier tool_call event of the Run having toolCallId c, has
\* exactly one warning referencing c.
C9_OrphanEventWarned ==
    pc = "validated" =>
        \A i \in 1..Len(run.events) :
            (/\ run.events[i].type = "tool_result"
             /\ run.events[i].toolCallId # Unset
             /\ ~\E j \in 1..(i - 1) :
                    /\ run.events[j].type = "tool_call"
                    /\ run.events[j].toolCallId = run.events[i].toolCallId)
            => Cardinality(WarningsFor(run.events[i].seq, run.events[i].toolCallId)) = 1

\* a validated Run with two orphaned results of the same id, each warned about once
C9_Witness ==
    /\ pc = "validated"
    /\ Len(run.warnings) = 2
    /\ \E i, j \in 1..Len(run.events) :
        /\ i < j
        /\ run.events[i].toolCallId = "c" /\ run.events[j].toolCallId = "c"
        /\ WarningsFor(run.events[i].seq, "c") # {}
        /\ WarningsFor(run.events[j].seq, "c") # {}

\* C10: every edge returned by buildCausalityChain for a parsed, enriched and
\* validated event list has from <= to.
C10_EdgesForward ==
    pc = "formatted" => \A k \in 1..Len(chain) : chain[k].from <= chain[k].to

\* the call records of the events of the Run whose args could not be parsed
UnparsedCalls ==
    { <<i, k>> \in (1..Len(run.events)) \X (1..MaxLines) :
        /\ run.events[i].data.present
        /\ k <= Len(run.events[i].data.list)
        /\ run.events[i].data.list[k].args = Unset }

\* a value of the Run type: a list of events and a list of warnings
IsRun(r) ==
    /\ DOMAIN r = {"raw", "events", "warnings"}
    /\ DOMAIN r.events = 1..Len(r.events)
    /\ DOMAIN r.warnings = 1..Len(r.warnings)

\* C11: parseVictoriaLog followed by enrichParsedRun and validateParsedRun never ends
\* in an error, whatever the lines of the input: no line raises, the input may end
\* after any line, every stage accepts what the stage before returned, and what the
\* last stage returns is a Run.
C11_NeverFails ==
    /\ pc # "error"
    /\ pc = "parse" => ENABLED EndOfInput
    /\ pc = "parsed" => IsRun(run) /\ ENABLED ProcessEnrich
    /\ pc = "enriched" => IsRun(run) /\ ENABLED ProcessValidate
    /\ pc = "validated" => IsRun(run)

\* the three stages returned a Run for a text that holds a tool-call bullet whose
\* arguments are not JSON
C11_Witness == pc = "validated" /\ UnparsedCalls # {}

\* C14: a Run parsed from a text with a tool-call bullet whose arguments are not JSON
\* holds a warning.
C14_BadJsonWarned == pc = "parsed" /\ UnparsedCalls # {} => run.warnings # <<>>

KeptFields(e) == DOMAIN e \ {"toolCallId", "data"}

\* C12: enrichParsedRun(r) has the events of r, in the same order and with the same
\* fields, except that a tool_result without toolCallId may have one and a tool_call
\* without data may have data; a toolCallId or data that r has is kept as it is, and
\* raw and warnings are those of r.
C12_EnrichFrame ==
    LastStage = "enrich" =>
        /\ DOMAIN run = DOMAIN input
        /\ run.raw = input.raw
        /\ run.warnings = input.warnings
        /\ Len(run.events) = Len(input.events)
        /\ \A i \in 1..Len(input.events) :
              LET old == input.events[i]
                  new == run.events[i]
              IN /\ DOMAIN new = DOMAIN old
                 /\ \A f \in KeptFields(old) : new[f] = old[f]
                 /\ Truthy(old.toolCallId) => new.toolCallId = old.toolCallId
                 /\ new.toolCallId # old.toolCallId => old.type = "tool_result"
                 /\ old.data.present => new.data = old.data
                 /\ new.data # old.data => old.type = "tool_call"

\* an enrichment that gave one tool_result a toolCallId and one tool_call a data
\* payload, and met a tool_result whose own toolCallId differs from that of the call
\* of the same name before it
C12_Witness ==
    /\ LastStage = "enrich"
    /\ \E i, j, k \in 1..Len(input.events) :
        /\ ~Truthy(input.events[i].toolCallId) /\ Truthy(run.events[i].toolCallId)
        /\ ~input.events[j].data.present /\ run.events[j].data.present
        /\ input.events[k].type = "tool_result"
        /\ Truthy(input.events[k].toolCallId)
        /\ j < k
        /\ input.events[j].toolName = input.events[k].toolName
        /\ Truthy(input.events[j].toolCallId)
        /\ input.events[j].toolCallId # input.events[k].toolCallId

\* C13: a validateParsedRun(r) call returns a Run with the events and the raw text of
\* r and no other field than r has, and leaves r, its warnings list included, as it
\* was before the call.
C13_ValidateFrame ==
    [][stages' = Append(stages, "validate") =>
          /\ DOMAIN run' = DOMAIN run
          /\ run'.events = run.events
          /\ run'.raw = run.raw
          /\ input' = run]_vars

\* a validation of a Run without warnings that returned warnings
C13_Witness ==
    /\ LastStage = "validate"
    /\ input.warnings = <<>>
    /\ run.warnings # <<>>
    /\ run.events # <<>>

\* the warnings the last validateParsedRun call appended
Appended == SubSeq(run.warnings, Len(input.warnings) + 1, Len(run.warnings))

\* the appended warnings about the event with that seq
AppendedFor(seq) == { k \in 1..Len(Appended) : Appended[k].seq = seq }

\* the tool_call events of the validated Run whose toolCallId no tool_result carries
UnmatchedCalls ==
    { i \in 1..Len(input.events) :
        /\ input.events[i].type = "tool_call"
        /\ Truthy(input.events[i].toolCallId)
        /\ \A j \in 1..Len(input.events) :
              input.events[j].type = "tool_result"
                  => input.events[j].toolCallId # input.events[i].toolCallId }

\* C16: validateParsedRun appends a warning about every tool_call event whose
\* toolCallId is carried by no tool_result event of the Run.
C16_UnmatchedCallWarned ==
    LastStage = "validate" =>
        \A i \in UnmatchedCalls : AppendedFor(input.events[i].seq) # {}

\* two characters of t from position i on, both digits
TwoDigits(t, i) == Len(t) > i /\ t[i] \in Digits /\ t[i + 1] \in Digits

\* two digits, colon, two digits, colon, two digits
TimeShaped(t) ==
    /\ Len(t) = 8
    /\ TwoDigits(t, 1) /\ t[3] = ":" /\ TwoDigits(t, 4) /\ t[6] = ":" /\ TwoDigits(t, 7)

\* the appended warnings about the timestamp of the event with that seq
TimestampWarnings(seq) ==
    { k \in AppendedFor(seq) : Appended[k].kind = "timestamp_format" }

\* C17: validateParsedRun appends a timestamp warning about an event exactly when
\* the event has a time that is not two digits, colon, two digits, colon, two digits;
\* the time 25:99:99 gets none.
C17_TimestampShapeOnly ==
    LastStage = "validate" =>
        \A i \in 1..Len(input.events) :
            LET e == input.events[i]
            IN /\ TimestampWarnings(e.seq) # {} <=> HasTime(e.time) /\ ~TimeShaped(e.time)
               /\ e.time = TimeB => TimestampWarnings(e.seq) = {}

\* a validation of a Run with an event timed 25:99:99, which got no timestamp
\* warning, and an event timed 9:5, which got one
C17_Witness ==
    /\ LastStage = "validate"
    /\ \E i, j \in 1..Len(input.events) :
        /\ input.events[i].time = TimeB
        /\ TimestampWarnings(input.events[i].seq) = {}
        /\ input.events[j].time = BadTime
        /\ TimestampWarnings(input.events[j].seq) # {}

\* C20: a parseVictoriaLog call begins with no current event, empty pending metadata,
\* seq 0 and no events, whatever another call holds at that moment, and the Run it
\* returns is the Run of that call made alone on the same text, whether the other
\* call ran before it, after it or interleaved with it.
C20_CallsIndependent ==
    pc = "two" =>
        \A c \in Callers :
            /\ calls[c].phase = "running" /\ calls[c].at = 0
                   => calls[c].locals = InitialLocals
            /\ calls[c].phase = "done"
                   => calls[c].result = parseVictoriaLog(calls[c].lines).run

\* both calls returned events for different texts, and one of them began while the
\* other was between two lines
C20_Witness ==
    /\ pc = "two"
    /\ \A c \in Callers : calls[c].phase = "done" /\ calls[c].result.events # <<>>
    /\ calls[1].lines # calls[2].lines
    /\ calls[2].overlap

\* the entries of the argument of the last call: those of an array, the messages of
\* an object
Entries ==
    IF entry.arg.kind = "array" \/ entry.arg.hasMessages THEN entry.arg.messages ELSE <<>>

\* C18: parseJsonLog on an array, or on an object with a messages array, of n entries
\* returns a Run of n events of type message, event i made from entry i with seq i,
\* and with no warnings (none of the warnings validateParsedRun would add, no
\* toolCallId enrichParsedRun would infer).
C18_JsonEvents ==
    /\ entry.fn = "parseJsonLog"
    /\ entry.arg.kind = "array" \/ (entry.arg.kind = "object" /\ entry.arg.hasMessages)
    => /\ entry.result.outcome = "returned"
       /\ Len(entry.result.value.events) = Len(Entries)
       /\ entry.result.value.warnings = <<>>
       /\ \A i \in 1..Len(Entries) :
             LET e == entry.result.value.events[i]
             IN /\ e.type = "message"
                /\ e.seq = i
                /\ e.text = IF Truthy(Entries[i].content) THEN <<Entries[i].content>>
                            ELSE <<>>
                /\ e.toolCallId = Unset

\* C19: parseJsonLogRaw on a string that is not JSON throws and returns no Run;
\* parseVictoriaLog, isJsonLog and normalizeLogFormat on such a string return:
\* isJsonLog false, normalizeLogFormat the string itself, parseVictoriaLog a Run.
C19_HardFailureOnlyJsonPath ==
    entry.arg.kind = "string" /\ ~entry.arg.json =>
        /\ entry.fn = "parseJsonLogRaw" =>
              entry.result = Raised("Invalid JSON format")
        /\ entry.fn \in {"parseVictoriaLog", "isJsonLog", "normalizeLogFormat"} =>
              entry.result.outcome = "returned"
        /\ entry.fn = "isJsonLog" => entry.result.value = FALSE
        /\ entry.fn = "normalizeLogFormat" => entry.result.value = entry.arg.lines
        /\ entry.fn = "parseVictoriaLog" => IsRun(entry.result.value)

\* parseJsonLogRaw threw on a text with a tool-call bullet that is not JSON, after
\* parseVictoriaLog and normalizeLogFormat had returned for the same text
C19_Witness ==
    /\ entry.arg.kind = "string" /\ ~entry.arg.json
    /\ Len(entry.arg.lines) = 2
    /\ entry.arg.lines[2].kind = "bullet"
    /\ entry.fn = "parseJsonLogRaw"
    /\ entry.result.outcome = "raised"
    /\ Len(stages) > 1
    /\ stages[Len(stages) - 1] \in {"parseVictoriaLog", "normalizeLogFormat"}

\* the tool_call events named as the event at position i and before it in the list
\* enrichParsedRun was given
CallsBefore(i) ==
    { j \in 1..(i - 1) :
        /\ input.events[j].type = "tool_call"
        /\ input.events[j].toolName = input.events[i].toolName }

\* the tool_result events of that list with a toolName and without toolCallId
NamedResults ==
    { i \in 1..Len(input.events) :
        /\ input.events[i].type = "tool_result"
        /\ ~Truthy(input.events[i].toolCallId)
        /\ Truthy(input.events[i].toolName) }

\* C21: enrichParsedRun gives a tool_result that has a toolName and no toolCallId the
\* toolCallId of the nearest tool_call of that name before it in the list it was
\* given, which is none when that call has none, and leaves it without toolCallId
\* when no such call is before it.
C21_NearestCallBefore ==
    LastStage = "enrich" =>
        \A i \in NamedResults :
            run.events[i].toolCallId =
                IF CallsBefore(i) = {} THEN Unset
                ELSE LET nearest == CHOOSE j \in CallsBefore(i) :
                                        \A k \in CallsBefore(i) : k <= j
                     IN input.events[nearest].toolCallId

\* a result left without toolCallId because the nearest call of its name has none,
\* although a call of that name further back has one
C21_Witness ==
    /\ LastStage = "enrich"
    /\ \E i \in NamedResults : \E j, k \in CallsBefore(i) :
        /\ j < k
        /\ \A m \in CallsBefore(i) : m <= k
        /\ Truthy(input.events[j].toolCallId)
        /\ ~Truthy(input.events[k].toolCallId)
        /\ ~Truthy(run.events[i].toolCallId)

\* C22: in the Run enrichParsedRun returns for a parsed Run, every tool_call event
\* has data with the calls field the parser writes for bullets, holding the call
\* records the event had, or no record when it had no data.
C22_CallsListAfterEnrich ==
    pc = "enriched" =>
        \A i \in 1..Len(run.events) :
            run.events[i].type = "tool_call" =>
                /\ run.events[i].data.present
                /\ run.events[i].data.key = "calls"
                /\ run.events[i].data.list = input.events[i].data.list

\* list a is the beginning of list b
IsPrefix(a, b) == Len(a) <= Len(b) /\ SubSeq(b, 1, Len(a)) = a

\* C23: a divider line leaves no event open, keeps the seq counter, and keeps the
\* events emitted so far, adding at most the event it closes; from then on, and
\* before the first header, no event is open until a header is read, and a content
\* or bullet line read meanwhile changes neither the parser state nor the events.
C23_DividerCloses ==
    [][/\ ReadDivider =>
            /\ state'.current = <<>>
            /\ state'.seq = state.seq
            /\ IsPrefix(events, events')
            /\ Len(events') <= Len(events) + 1
            /\ state.current = <<>> => events' = events
       /\ pc = "parse" /\ gap.closed => state.current = <<>>
       /\ gap.closed /\ (ReadContent \/ ReadBullet) =>
            state' = state /\ events' = events]_vars

\* a divider closed an event that was emitted, and a content or bullet line read
\* after it was dropped
C23_Witness ==
    /\ pc = "parse"
    /\ gap.closed /\ gap.header > 0 /\ gap.dropped
    /\ events # <<>>
    /\ Last(events).seq = gap.header
    /\ state.current = <<>>

(***************************************************************************)
(* The text given to parseVictoriaLog, read as sections                    *)
(***************************************************************************)
Text == entry.arg.lines

\* parseVictoriaLog has returned for the text
Parsed == pc = "text" /\ entry.fn = "parseVictoriaLog" /\ entry.result.outcome = "returned"

\* the events it returned
Out == entry.result.value.events

LinesOf(P, kinds) == { i \in P : Text[i].kind \in kinds }

HeaderLines == LinesOf(1..Len(Text), {"header"})

\* the 1-based position of header line h among the header lines
HeaderNumber(h) == Cardinality({ i \in HeaderLines : i <= h })

\* the first header or divider line after line h, or the line after the last
SectionEnd(h) ==
    LET closers == LinesOf((h + 1)..Len(Text), {"header", "divider"})
    IN IF closers = {} THEN Len(Text) + 1 ELSE Min(closers)

\* the lines of the section that header line h opens
Section(h) == (h + 1)..(SectionEnd(h) - 1)

\* the lines before header line h that are in no section: all the lines before h when
\* h is the first header, and otherwise those after the divider that ended the
\* section before
Outside(h) ==
    LET before == { i \in HeaderLines : i < h }
    IN IF before = {} THEN 1..(h - 1)
       ELSE (SectionEnd(Max(before)) + 1)..(h - 1)

\* the positions in Out of the event opened by header line h: one or none
EmittedFor(h) == { k \in 1..Len(Out) : Out[k].seq = HeaderNumber(h) }

\* the time value a time line or a Model line carries
TimeAt(i) == IF Text[i].kind = "time" THEN Text[i].v ELSE Text[i].v.time

\* the lines of a section that are text: content, bullet and blank lines
TextKinds == {"content", "bullet", "blank"}

Token(i) ==
    CASE Text[i].kind = "content" -> <<Text[i].v>>
      [] Text[i].kind = "bullet" -> <<Text[i].v.line>>
      [] Text[i].kind = "blank" -> Text[i].v

\* the lines at the positions P, in order, joined by newlines
RECURSIVE Joined(_)
Joined(P) ==
    IF P = {} THEN <<>>
    ELSE Token(Min(P)) \o (IF P = {Min(P)} THEN <<>> ELSE <<NL>> \o Joined(P \ {Min(P)}))

\* the content and bullet lines of the section of header line h and the blank lines
\* between them
ContentText(h) ==
    LET solid == LinesOf(Section(h), {"content", "bullet"})
    IN IF solid = {} THEN <<>>
       ELSE Joined({ i \in LinesOf(Section(h), TextKinds) :
                        Min(solid) <= i /\ i <= Max(solid) })

\* the same, with the blank lines before the first content or bullet line from the
\* first one that is not empty on
SectionText(h) ==
    LET solid == LinesOf(Section(h), {"content", "bullet"})
        filled == { i \in LinesOf(Section(h), TextKinds) : Token(i) # <<>> }
    IN IF solid = {} THEN <<>>
       ELSE Joined({ i \in LinesOf(Section(h), TextKinds) :
                        Min(filled) <= i /\ i <= Max(solid) })

\* the last-wins fields of the event opened by header h, set against its section
LastWins(h, e) ==
    /\ LinesOf(Section(h), {"model"}) # {}
           => e.model = Text[Max(LinesOf(Section(h), {"model"}))].v.model
    /\ LinesOf(Section(h), {"tool"}) # {}
           => e.toolName = Text[Max(LinesOf(Section(h), {"tool"}))].v
    /\ LinesOf(Section(h), {"id"}) # {}
           => e.toolCallId = Text[Max(LinesOf(Section(h), {"id"}))].v

TimeBearing == {"time", "model"}

\* C24 as stated: an emitted event holds the first time value of its section (from a
\* time line or a Model line), the model, toolName and toolCallId of the last Model,
\* Tool and ID line of its section, and a text made of none of these lines.
C24_FirstTimeOfSection ==
    Parsed =>
        \A h \in HeaderLines : \A k \in EmittedFor(h) :
            /\ LinesOf(Section(h), TimeBearing) # {}
                   => Out[k].time = TimeAt(Min(LinesOf(Section(h), TimeBearing)))
            /\ LastWins(h, Out[k])
            /\ Out[k].text = SectionText(h)

\* C24 amended: an emitted event holds the last time value buffered before its
\* header while no event was open, when there is one, and otherwise the first time
\* value of its section; it holds the model, toolName and toolCallId of the last
\* Model, Tool and ID line of its section, and a text made of none of these lines.
C24_FirstTimeLastOthers ==
    Parsed =>
        \A h \in HeaderLines : \A k \in EmittedFor(h) :
            /\ Out[k].time =
                  IF LinesOf(Outside(h), TimeBearing) # {}
                  THEN TimeAt(Max(LinesOf(Outside(h), TimeBearing)))
                  ELSE IF LinesOf(Section(h), TimeBearing) # {}
                  THEN TimeAt(Min(LinesOf(Section(h), TimeBearing)))
                  ELSE NoTime
            /\ LastWins(h, Out[k])
            /\ Out[k].text = SectionText(h)

\* an event whose section holds two different time values, two Model lines of
\* different models and a content line, with no time buffered before its header
C24_Witness ==
    /\ Parsed
    /\ \E h \in HeaderLines : \E k \in EmittedFor(h) :
        /\ LinesOf(Outside(h), TimeBearing) = {}
        /\ \E i, j \in LinesOf(Section(h), {"model"}) :
              i < j /\ Text[i].v.model # Text[j].v.model /\ TimeAt(i) # TimeAt(j)
        /\ Out[k].text # <<>>

\* the line the event of header line h takes a last-wins field from: the last line of
\* that kind in its section, or else the last one buffered before the header while
\* no event was open, or 0 when there is neither
Source(h, kind) ==
    IF LinesOf(Section(h), {kind}) # {} THEN Max(LinesOf(Section(h), {kind}))
    ELSE IF LinesOf(Outside(h), {kind}) # {} THEN Max(LinesOf(Outside(h), {kind}))
    ELSE 0

\* C25: the metadata an emitted event holds comes from its own section and from
\* the lines buffered before its own header while no event was open, and from no
\* line before that: a field with no line in either place is unset, and a value
\* buffered before the header is on the event unless its section overwrites it.
C25_PendingUsedOnce ==
    Parsed =>
        \A h \in HeaderLines : \A k \in EmittedFor(h) :
            LET e == Out[k]
                model == Source(h, "model")
                tool == Source(h, "tool")
                id == Source(h, "id")
            IN /\ e.model = IF model = 0 THEN Unset ELSE Text[model].v.model
               /\ e.toolName = IF tool = 0 THEN Unset ELSE Text[tool].v
               /\ e.toolCallId = IF id = 0 THEN Unset ELSE Text[id].v
               /\ LinesOf(Outside(h) \cup Section(h), TimeBearing) = {} => e.time = NoTime
               /\ LinesOf(Outside(h), TimeBearing) # {}
                      => e.time = TimeAt(Max(LinesOf(Outside(h), TimeBearing)))

\* a Tool line buffered before the first header is on the first event and not on
\* the second, neither section holding a Tool line
C25_Witness ==
    /\ Parsed
    /\ \E h1, h2 \in HeaderLines : \E k1 \in EmittedFor(h1) : \E k2 \in EmittedFor(h2) :
        /\ h1 < h2
        /\ LinesOf(Outside(h1), {"tool"}) # {}
        /\ LinesOf(Section(h1) \cup Outside(h2) \cup Section(h2), {"tool"}) = {}
        /\ Truthy(Out[k1].toolName)
        /\ ~Truthy(Out[k2].toolName)

\* the positions P from the first to the last
RECURSIVE InOrder(_)
InOrder(P) == IF P = {} THEN <<>> ELSE <<Min(P)>> \o InOrder(P \ {Min(P)})

\* the bullet lines of the section of header line h, in line order
Bullets(h) == InOrder(LinesOf(Section(h), {"bullet"}))

\* the call records of an event: none when it has no data
Records(e) == IF e.data.present THEN e.data.list ELSE <<>>

\* C26: every returned event is the event of a header line; a tool_call event has
\* one call record per bullet line of its section, in line order, under data.calls; an
\* event of another type has no data; the bullet lines of a section are in the text
\* of its event, and a bullet line in no section is in no event.
C26_RecordPerBullet ==
    Parsed =>
        /\ \A k \in 1..Len(Out) : \E h \in HeaderLines : k \in EmittedFor(h)
        /\ \A h \in HeaderLines : \A k \in EmittedFor(h) :
              /\ Out[k].type = Text[h].v.type
              /\ Out[k].text = SectionText(h)
              /\ Len(Records(Out[k])) =
                     IF Out[k].type = "tool_call" THEN Len(Bullets(h)) ELSE 0
              /\ Out[k].data.present <=> Records(Out[k]) # <<>>
              /\ Out[k].data.present => Out[k].data.key = "calls"
              /\ \A n \in 1..Len(Records(Out[k])) :
                    /\ Records(Out[k])[n].tool = Text[Bullets(h)[n]].v.tool
                    /\ Records(Out[k])[n].args_raw = Text[Bullets(h)[n]].v.args_raw

\* a tool_call event with the records of the two different bullet lines of its
\* section, after a bullet line read before its header
C26_Witness ==
    /\ Parsed
    /\ \E h \in HeaderLines : \E k \in EmittedFor(h) :
        /\ Out[k].type = "tool_call"
        /\ Len(Records(Out[k])) = 2
        /\ Records(Out[k])[1].tool # Records(Out[k])[2].tool
        /\ LinesOf(Outside(h), {"bullet"}) # {}

\* the text with the arguments of every bullet line made JSON
Parseable(l) == IF l.kind = "bullet" THEN [l EXCEPT !.v.json = TRUE] ELSE l
ParseableText == [i \in 1..Len(Text) |-> Parseable(Text[i])]

\* the events without the args of their call records
WithoutArgs(evs) ==
    [k \in 1..Len(evs) |->
        [evs[k] EXCEPT !.data.list = [n \in 1..Len(@) |-> [@[n] EXCEPT !.args = Unset]]]]

\* C27: parseVictoriaLog returns for every text; the record of a bullet line has
\* the args_raw of the line, and args unset exactly when the arguments are not JSON;
\* but for these args, the events are those of the same text with every bullet's
\* arguments JSON.
C27_UnparsedArgsKept ==
    pc = "text" /\ entry.fn = "parseVictoriaLog" =>
        /\ entry.result.outcome = "returned"
        /\ \A h \in HeaderLines : \A k \in EmittedFor(h) :
              /\ Out[k].type = "tool_call" => Len(Records(Out[k])) = Len(Bullets(h))
              /\ \A n \in 1..Len(Records(Out[k])) :
                    /\ Records(Out[k])[n].args_raw = Text[Bullets(h)[n]].v.args_raw
                    /\ Records(Out[k])[n].args = Unset <=> ~Text[Bullets(h)[n]].v.json
        /\ WithoutArgs(Out) = WithoutArgs(parseVictoriaLog(ParseableText).run.events)

\* a tool_call event whose first record has no args and whose second record has
\* args
C27_Witness ==
    /\ Parsed
    /\ \E k \in 1..Len(Out) :
        /\ Len(Records(Out[k])) = 2
        /\ Records(Out[k])[1].args = Unset
        /\ Records(Out[k])[1].args_raw # Unset
        /\ Records(Out[k])[2].args # Unset

\* the text without its blank lines
IsNotBlank(l) == l.kind # "blank"
WithoutBlanks == SelectSeq(Text, IsNotBlank)

\* the events without their text
WithoutText(evs) == [k \in 1..Len(evs) |-> [evs[k] EXCEPT !.text = <<>>]]

\* the blank lines change nothing but the text of the events: the same headers have
\* an event, with the same fields but text, unless an event's whole text is blank lines
BlanksOnlyInText ==
    LET plain == parseVictoriaLog(WithoutBlanks).run.events
    IN /\ Len(Out) = Len(plain)
       /\ WithoutText(Out) = WithoutText(plain)

\* the text ends with no newline and no space
NoTrailingWhitespace(text) == text = <<>> \/ Last(text) \notin Whitespace

\* C28 as stated: the text of an emitted event is the content and bullet lines of its
\* section joined by newlines with the blank lines between them, it ends with no
\* whitespace, and the blank lines of the text neither close nor open an event.
C28_TextIsContentLines ==
    Parsed =>
        /\ \A h \in HeaderLines : \A k \in EmittedFor(h) :
              /\ Out[k].text = ContentText(h)
              /\ NoTrailingWhitespace(Out[k].text)
        /\ BlanksOnlyInText

\* C28 amended: the text of an emitted event is the content, bullet and blank lines
\* of its section joined by newlines, from the first of them that is not empty (a
\* line of spaces is not empty) to the last content or bullet line; it ends
\* with no whitespace, and the blank lines of the text neither close nor open an
\* event.
C28_TextFromFirstFilledLine ==
    Parsed =>
        /\ \A h \in HeaderLines : \A k \in EmittedFor(h) :
              /\ Out[k].text = SectionText(h)
              /\ NoTrailingWhitespace(Out[k].text)
        /\ BlanksOnlyInText

\* an event whose text begins with a line of spaces before a content line, from a
\* section that ends with a blank line
C28_Witness ==
    /\ Parsed
    /\ \E h \in HeaderLines : \E k \in EmittedFor(h) :
        /\ Len(Out[k].text) >= 3
        /\ Out[k].text[1] = SP
        /\ Out[k].text[2] = NL
        /\ Text[SectionEnd(h) - 1].kind = "blank"

\* the positions in the chain of the call-to-result edges that end at the event e
EdgesToResult(e) ==
    { n \in 1..Len(chain) : /\ chain[n].fromType = "tool_call"
                            /\ chain[n].toType = "tool_result"
                            /\ chain[n].to = e.seq }

\* the positions in the list evs of the tool_call events that carry the id of e
CallsCarrying(evs, e) ==
    { j \in 1..Len(evs) : evs[j].type = "tool_call" /\ evs[j].toolCallId = e.toolCallId }

\* C29: in the chain that buildCausalityChain returns for a list of events, a
\* tool_result with a toolCallId has exactly one call-to-result edge when some
\* tool_call of the list carries its id, from the last such tool_call of the whole
\* list, and none when no tool_call carries it.
C29_LastCallLinked ==
    pc = "call" /\ LastStage = "format" =>
        \A i \in 1..Len(input.events) :
            LET e == input.events[i]
                carrying == CallsCarrying(input.events, e)
            IN e.type = "tool_result" /\ Truthy(e.toolCallId) =>
                 IF carrying = {} THEN EdgesToResult(e) = {}
                 ELSE /\ Cardinality(EdgesToResult(e)) = 1
                      /\ \A n \in EdgesToResult(e) :
                            chain[n].from = input.events[Max(carrying)].seq

\* a tool_result between two tool_calls that carry its id, linked from the one after it
C29_Witness ==
    /\ pc = "call"
    /\ LastStage = "format"
    /\ \E i \in 1..Len(input.events) :
        /\ input.events[i].type = "tool_result"
        /\ \E a, b \in CallsCarrying(input.events, input.events[i]) : a < i /\ i < b
        /\ \E n \in EdgesToResult(input.events[i]) : chain[n].from > input.events[i].seq

\* the event has one of the four pairs of role and type
HasHeaderPair(e) ==
    \/ e.role = "user" /\ e.type = "message"
    \/ e.role = "assistant" /\ e.type = "thought"
    \/ e.role = "assistant" /\ e.type = "tool_call"
    \/ e.role = "tool" /\ e.type = "tool_result"

RoleWarnings == {"tool_call_role", "tool_result_role"}

\* C30: every event that parseVictoriaLog has open, has emitted or returns has one
\* of the pairs user/message, assistant/thought, assistant/tool_call and
\* tool/tool_result, the events keep it through enrichParsedRun and validateParsedRun,
\* and the warnings of the validated Run hold neither role warning.
C30_FourRoleTypePairs ==
    /\ \A k \in 1..Len(events) : HasHeaderPair(events[k])
    /\ state.current # <<>> => HasHeaderPair(state.current[1])
    /\ pc \in {"parsed", "enriched", "validated", "formatted"} =>
          \A k \in 1..Len(run.events) : HasHeaderPair(run.events[k])
    /\ pc \in {"validated", "formatted"} =>
          \A n \in 1..Len(run.warnings) : run.warnings[n].kind \notin RoleWarnings

\* a validated Run with a tool_call event and a tool_result event, for which the
\* validator has raised another warning
C30_Witness ==
    /\ pc = "validated"
    /\ \E k \in 1..Len(run.events) : run.events[k].type = "tool_call"
    /\ \E k \in 1..Len(run.events) : run.events[k].type = "tool_result"
    /\ \E n \in 1..Len(run.warnings) : run.warnings[n].kind = "no_matching_tool_call"

\* the time is absent or of the shape of two digits, a colon, two digits, a colon
\* and two digits
ShapedOrAbsent(t) == HasTime(t) => MatchesTime(t)

\* C31: every time that parseVictoriaLog holds as pending, on its open event, on an
\* emitted event or on a returned event has the shape HH:MM:SS, the events keep it
\* through enrichParsedRun and validateParsedRun, and the warnings of the validated
\* Run hold no timestamp warning.
C31_TimesShaped ==
    /\ ShapedOrAbsent(state.pending.time)
    /\ state.current # <<>> => ShapedOrAbsent(state.current[1].time)
    /\ \A k \in 1..Len(events) : ShapedOrAbsent(events[k].time)
    /\ pc \in {"parsed", "enriched", "validated", "formatted"} =>
          \A k \in 1..Len(run.events) : ShapedOrAbsent(run.events[k].time)
    /\ pc \in {"validated", "formatted"} =>
          \A n \in 1..Len(run.warnings) : run.warnings[n].kind # "timestamp_format"

\* a validated Run with an event whose time is that of a time line and an event whose
\* time is that of a Model line
C31_Witness ==
    /\ pc = "validated"
    /\ \E k \in 1..Len(run.events) : run.events[k].time = TimeA
    /\ \E k \in 1..Len(run.events) :
          run.events[k].time = TimeB /\ Truthy(run.events[k].model)

\* the header line that is the n-th header line of the text
NthHeader(n) == CHOOSE h \in HeaderLines : HeaderNumber(h) = n

\* the section of header line h gives its event a text, a toolName or a model
Kept(h) ==
    \/ SectionText(h) # <<>>
    \/ Source(h, "tool") # 0
    \/ Source(h, "model") # 0

ValidatesEnriched == LastStage = "enrich" /\ stages' = Append(stages, "validate")

\* the positions of the tool_result events of the list given to enrichParsedRun that
\* had no toolCallId and have one in the list it returned
InferredResults ==
    { i \in 1..Len(input.events) :
        /\ input.events[i].type = "tool_result"
        /\ ~Truthy(input.events[i].toolCallId)
        /\ Truthy(run.events[i].toolCallId) }

\* C33: when validateParsedRun is given the Run enrichParsedRun returned for a Run r,
\* the warnings it returns hold no 'no matching tool_call' warning for a tool_result
\* that had no toolCallId in r and has one from enrichParsedRun.
C33_InferredIdNeverOrphaned ==
    [][ValidatesEnriched =>
          \A i \in InferredResults :
              \A n \in 1..Len(run'.warnings) :
                  ~(/\ run'.warnings[n].kind = "no_matching_tool_call"
                    /\ run'.warnings[n].seq = run.events[i].seq)]_vars

\* a Run enriched and then validated in which a tool_result named y has a toolCallId,
\* which only enrichParsedRun gives it, no result of EventShapes named y having one,
\* and in which the validator reports another result as unmatched
C33_Witness ==
    /\ pc = "call"
    /\ LastTwoStages = <<"enrich", "validate">>
    /\ \E i \in 1..Len(run.events) :
        /\ run.events[i].type = "tool_result"
        /\ run.events[i].toolName = "y"
        /\ Truthy(run.events[i].toolCallId)
    /\ \E n \in 1..Len(run.warnings) : run.warnings[n].kind = "no_matching_tool_call"

\* the validator has reported the event e as a tool_result without matching tool_call
ReportedUnmatched(e) ==
    \E n \in 1..Len(run.warnings) :
        run.warnings[n].kind = "no_matching_tool_call" /\ run.warnings[n].seq = e.seq

\* C34: for a list of events given to validateParsedRun and then to
\* buildCausalityChain, a tool_result with a toolCallId has a call-to-result edge in
\* the chain exactly when the validator has raised no 'no matching tool_call' warning
\* for it.
C34_ValidatorLinkerAgree ==
    pc = "call" /\ LastTwoStages = <<"validate", "format">> =>
        \A i \in 1..Len(run.events) :
            LET e == run.events[i]
            IN e.type = "tool_result" /\ Truthy(e.toolCallId) =>
                 (EdgesToResult(e) # {} <=> ~ReportedUnmatched(e))

\* the parser state of the call after the first n lines of the text
StateAfter(n) == parseLines(InitialLocals, SubSeq(Text, 1, n), 1).state

MetadataKinds == {"time", "model", "id", "tool"}
IdleKinds == {"divider", "blank", "content", "bullet"}

\* the event that a header opens holds the values of the pending buffer p
HoldsPending(e, p) ==
    /\ e.time = p.time
    /\ e.model = p.model
    /\ e.toolName = p.toolName
    /\ e.toolCallId = p.toolId

\* C35: line by line through the text, a divider, blank, content or bullet line met
\* while no event is open and a metadata line met while an event is open leave the
\* pending buffer as it was; a line that is no metadata line changes the buffer only
\* by emptying it, and only a header or divider line met while an event is open does;
\* an event opened while no event is open holds what the buffer holds.
C35_PendingFrame ==
    Parsed =>
        \A n \in 1..Len(Text) :
            LET before == StateAfter(n - 1)
                after == StateAfter(n)
                kind == Text[n].kind
            IN /\ before.current = <<>> /\ kind \in IdleKinds
                     => after.pending = before.pending
               /\ before.current # <<>> /\ kind \in MetadataKinds
                     => after.pending = before.pending
               /\ after.pending # before.pending /\ kind \notin MetadataKinds
                     => /\ before.current # <<>>
                        /\ kind \in {"header", "divider"}
                        /\ after.pending = EmptyPending
               /\ before.current = <<>> /\ kind = "header"
                     => HoldsPending(after.current[1], before.pending)

\* a Model line and then a divider, blank, content or bullet line, both met while no
\* event is open, before a header whose returned event has the model of the Model
\* line, and after the header a metadata line that leaves the model in the buffer
C35_Witness ==
    /\ Parsed
    /\ \E h \in HeaderLines : \E i, j \in 1..(h - 1) : \E m \in (h + 1)..Len(Text) :
        /\ i < j
        /\ Text[i].kind = "model"
        /\ Text[j].kind \in IdleKinds
        /\ StateAfter(h - 1).current = <<>>
        /\ \E k \in EmittedFor(h) : Out[k].model = Text[i].v.model
        /\ Text[m].kind \in MetadataKinds
        /\ StateAfter(m - 1).current # <<>>
        /\ StateAfter(m).pending.model = Text[i].v.model

\* C36: the worker answers OPEN_AND_UPLOAD with ok: true only when a content script
\* has answered UPLOAD_FILES with ok: true, and the popup shows 'Provider opened. Files
\* uploaded.' only then.
C36_OkOnlyIfAcknowledged ==
    pc = "upload" =>
        /\ \A n \in 1..Len(responses) : responses[n].ok => acked
        /\ popup.status = Uploaded => acked

\* C37: the worker never answers an OPEN_AND_UPLOAD message twice, and once the
\* message is sent it answers it, whichever of the end of the tab's load and the
\* registration of the onUpdated listener comes first.
C37_EventuallyOneResponse ==
    /\ [](Len(responses) <= 1)
    /\ (popup.at = "awaiting") ~> (Len(responses) = 1)

====
